---- MODULE Spec2Model ----
(***************************************************************************)
(* A model of the snapshot/changelist engine of git-changelists            *)
(* (src/src/ChangelistService.ts): one ChangelistService instance, the     *)
(* working tree and git repository it acts on, and the workspaceState      *)
(* store it persists to.                                                   *)
(*                                                                         *)
(* Every public async method is a sequence of steps, one per stretch of    *)
(* code between two awaits; pc holds the position and the locals of the    *)
(* method in progress.  The user (editing files) and the file watcher      *)
(* (refresh) act between two methods.                                      *)
(*                                                                         *)
(* File contents are byte sequences; strings are code point sequences;     *)
(* fs.readFileSync(p,'utf8') and fs.writeFileSync(p,s,'utf8') are the      *)
(* UTF-8 decoder and encoder.  Paths are token sequences (names and the    *)
(* separators "/" and "\"), joined as path.join does on POSIX.             *)
(***************************************************************************)
EXTENDS Integers, Sequences, FiniteSets, TLC

VARIABLES
    state,          \* this.state: [version, activeChangelistId, changelists]
    changedFiles,   \* this.changedFiles: relative path -> status (cache of git status)
    store,          \* context.workspaceState: key -> persisted record
    fs,             \* the file system: location -> bytes
    head,           \* git HEAD commit: relative location -> bytes
    index,          \* git index: relative location -> bytes
    stash,          \* git stash stack
    config,         \* smartChangelists.saveSnapshotsToFile
    pc,             \* the method in progress and its locals
    last,           \* the step taken last and its outcome
    fired,          \* number of onDidChangeChangelists events fired
    now,            \* Date.now()
    nextId,         \* source of generateId()
    ops,            \* methods that may still be started
    edits,          \* edits the user may still make
    captured,       \* history: bytes on disk when a snapshot was captured
    workspaceFolders,   \* vscode.workspace.workspaceFolders, as paths
    repositories,   \* RepositoryManager.repositories: path -> GitRepository
    services,       \* extension.ts services: repository path -> engine
    calls           \* the shelveFile calls issued while other work goes on

vars == <<state, changedFiles, store, fs, head, index, stash, config, pc, last,
          fired, now, nextId, ops, edits, captured, workspaceFolders,
          repositories, services, calls>>

\* What the methods of one engine leave alone
sessionFrame == UNCHANGED <<workspaceFolders, repositories, services, calls>>

-----------------------------------------------------------------------------
(* Bounds of the model *)

MaxOps == 2
MaxEdits == 1
MaxShelfOps == 3
MaxShelfEdits == 2
MaxClock == 1
MaxChangelists == 3
MaxLoads == 2
MaxStamp == 2
MaxRootOps == 3
MaxCalls == 2
MaxOverlapOps == 1

-----------------------------------------------------------------------------
(* Program constants *)

STATE_VERSION == 4
SNAPSHOTS_DIR == ".smartchangelists"

-----------------------------------------------------------------------------
(* Values *)

NoFile == <<-1>>            \* the location holds no file
Undefined == <<-2>>         \* JavaScript undefined, for an optional string
NoCapture == <<-3>>         \* no earlier capture
NoRecord == [version |-> -1, activeChangelistId |-> -1, changelists |-> <<>>]

RepoPath == <<"repoA">>     \* this.repository.path, as segments
StateKey == "smartChangelists.state.repoA"
LEGACY_STATE_KEY == "smartChangelists.state"
StoreKeys == {StateKey, LEGACY_STATE_KEY}
NoServices == <<>>          \* the map of engines, where it is not followed
NoPath == <<>>              \* a path that is undefined or '', both falsy
OtherRoot == <<"other">>    \* a workspace folder that is not this repository
WorkspaceRoots == {RepoPath, OtherRoot}

PF == <<"f">>               \* relative path  f
PDF == <<"d", "/", "f">>    \* relative path  d/f
PDBF == <<"d", "\\", "f">>  \* relative path  d\f
WorkPaths == {PF, PDF}      \* the files the user edits

LabelA == <<"A">>
LabelUp == <<"..">>
Labels == {LabelA, LabelUp}

TextA == <<97>>             \* "a"
TextB == <<98>>             \* "b"
Binary == <<255>>           \* a byte that is not valid UTF-8
UserContents == {TextA, Binary}

Min(a, b) == IF a < b THEN a ELSE b

-----------------------------------------------------------------------------
(* Strings, paths *)

\* Buffer.toString('utf8'): ASCII bytes decode to themselves, EF BF BD to
\* U+FFFD, any other byte >= 0x80 (never valid alone) to U+FFFD.
RECURSIVE utf8Decode(_)
utf8Decode(b) ==
    IF b = <<>> THEN <<>>
    ELSE IF Head(b) < 128 THEN <<Head(b)>> \o utf8Decode(Tail(b))
    ELSE IF Len(b) >= 3 /\ SubSeq(b, 1, 3) = <<239, 191, 189>>
         THEN <<65533>> \o utf8Decode(SubSeq(b, 4, Len(b)))
    ELSE <<65533>> \o utf8Decode(Tail(b))

\* Buffer.from(s,'utf8')
RECURSIVE utf8Encode(_)
utf8Encode(s) ==
    IF s = <<>> THEN <<>>
    ELSE IF Head(s) < 128 THEN <<Head(s)>> \o utf8Encode(Tail(s))
    ELSE <<239, 191, 189>> \o utf8Encode(Tail(s))

\* filePath.replace(/\\/g, '/')
normalizePath(p) == [i \in DOMAIN p |-> IF p[i] = "\\" THEN "/" ELSE p[i]]

\* The segments of a path: its tokens split at "/", each segment one string.
RECURSIVE Segments(_, _)
Segments(p, cur) ==
    IF p = <<>> THEN (IF cur = "" THEN <<>> ELSE <<cur>>)
    ELSE IF Head(p) = "/"
         THEN (IF cur = "" THEN <<>> ELSE <<cur>>) \o Segments(Tail(p), "")
    ELSE Segments(Tail(p), cur \o Head(p))

\* path.normalize on segments: "." dropped, ".." removes the segment before it.
RECURSIVE Resolve(_, _)
Resolve(segs, acc) ==
    IF segs = <<>> THEN acc
    ELSE IF Head(segs) = "." THEN Resolve(Tail(segs), acc)
    ELSE IF Head(segs) = ".." /\ acc # <<>> /\ acc[Len(acc)] # ".."
         THEN Resolve(Tail(segs), SubSeq(acc, 1, Len(acc) - 1))
    ELSE Resolve(Tail(segs), Append(acc, Head(segs)))

\* path.join(a, b, ...) of segment lists
PathJoin(segs) == Resolve(segs, <<>>)

\* path.join(repoPath, relativePath)
getAbsolutePathFromRepo(relativePath, repoPath) ==
    PathJoin(repoPath \o Segments(relativePath, ""))

\* path.basename(relativePath)
Basename(p) ==
    LET s == Segments(p, "") IN IF s = <<>> THEN "" ELSE s[Len(s)]

\* label.replace(/[<>:"/\\|?*]/g, '_'), as one segment
RECURSIVE Sanitize(_)
Sanitize(label) ==
    IF label = <<>> THEN ""
    ELSE (IF Head(label) \in {"<", ">", ":", "\"", "/", "\\", "|", "?", "*"}
          THEN "_" ELSE Head(label)) \o Sanitize(Tail(label))

\* path.join(repo, SNAPSHOTS_DIR, sanitizedName, fileName)
getSnapshotFilePath(shelvedFile, changelist) ==
    PathJoin(RepoPath \o <<SNAPSHOTS_DIR, Sanitize(changelist.label),
                           Basename(shelvedFile.relativePath)>>)

\* Location of a work path inside the repository
Loc(p) == getAbsolutePathFromRepo(p, RepoPath)

MirrorLocs ==
    {PathJoin(RepoPath \o <<SNAPSHOTS_DIR, Sanitize(l), "f">>) : l \in Labels}

\* The file f of another repository of the workspace
OtherRepoPath == <<"lib">>
OtherLoc == getAbsolutePathFromRepo(PF, OtherRepoPath)

FsLocs == {Loc(p) : p \in WorkPaths \cup {PDBF}} \cup MirrorLocs \cup {OtherLoc}

\* The locations of the working tree proper: everything but the mirror directory
InMirrorDir(loc) ==
    Len(loc) > Len(RepoPath) /\ loc[Len(RepoPath) + 1] = SNAPSHOTS_DIR

TrackLocs == {Loc(p) : p \in WorkPaths}

-----------------------------------------------------------------------------
(* git: status *)

\* The XY codes of `git status --porcelain` for a work path: X compares the
\* index with HEAD, Y the working tree with the index.
CodeX(p) ==
    IF index[p] = head[p] THEN " "
    ELSE IF head[p] = NoFile THEN "A"
    ELSE IF index[p] = NoFile THEN "D"
    ELSE "M"

CodeY(p) ==
    IF fs[Loc(p)] = index[p] THEN " "
    ELSE IF fs[Loc(p)] = NoFile THEN "D"
    ELSE "M"

\* The status lines git prints for p (a path removed from the index whose
\* file exists again is listed twice: "D " and "??").
StatusLines(p) ==
    IF index[p] = NoFile
    THEN (IF CodeX(p) = "D" THEN {<<"D", " ">>} ELSE {})
         \cup (IF fs[Loc(p)] # NoFile THEN {<<"?", "?">>} ELSE {})
    ELSE (IF CodeX(p) = " " /\ CodeY(p) = " " THEN {} ELSE {<<CodeX(p), CodeY(p)>>})

\* mapGitStatus(index, workingDir)
mapGitStatus(idx, workingDir) ==
    IF workingDir = "M" \/ idx = "M" THEN "modified"
    ELSE IF workingDir = "D" \/ idx = "D" THEN "deleted"
    ELSE IF workingDir = "A" \/ idx = "A" THEN "added"
    ELSE IF workingDir = "R" \/ idx = "R" THEN "renamed"
    ELSE IF workingDir = "C" \/ idx = "C" THEN "copied"
    ELSE IF workingDir = "?" \/ idx = "?" THEN "untracked"
    ELSE IF workingDir = "!" \/ idx = "!" THEN "ignored"
    ELSE IF workingDir = "U" \/ idx = "U" THEN "conflicted"
    ELSE "modified"

\* updateChangedFiles(status): the arrays of the StatusResult are processed in
\* the order modified, not_added, created, deleted; a later array overrides an
\* earlier one; a path in status.files but in no array gets mapGitStatus.
StatusOf(p) ==
    LET lines == StatusLines(p)
        inModified == lines \cap {<<" ", "M">>, <<"M", " ">>, <<"M", "M">>, <<"A", "M">>} # {}
        inNotAdded == <<"?", "?">> \in lines
        inCreated == lines \cap {<<"A", " ">>, <<"A", "M">>} # {}
        inDeleted == lines \cap {<<" ", "D">>, <<"D", " ">>} # {}
    IN  IF lines = {} THEN "none"
        ELSE IF inDeleted THEN "deleted"
        ELSE IF inCreated THEN "added"
        ELSE IF inNotAdded THEN "untracked"
        ELSE IF inModified THEN "modified"
        ELSE LET l == CHOOSE l \in lines : TRUE IN mapGitStatus(l[1], l[2])

updateChangedFiles == [p \in WorkPaths |-> StatusOf(p)]

-----------------------------------------------------------------------------
(* The state object *)

Changelist(id, label, isDefault, isActive) ==
    [id |-> id, label |-> label, shelvedFiles |-> <<>>,
     isDefault |-> isDefault, isActive |-> isActive, repoPath |-> RepoPath]

ShelvedFile(relativePath, status, originalContent, headContent, shelvedAt) ==
    [relativePath |-> relativePath, status |-> status, patch |-> <<>>,
     originalContent |-> originalContent, headContent |-> headContent,
     shelvedAt |-> shelvedAt, repoPath |-> RepoPath]

DefaultLabel == <<"Default Changelist">>

\* A GitRepository of types.ts; its name is the last segment of its path
GitRepository(repoPath, parentRepoPath) ==
    [path |-> repoPath, parentRepoPath |-> parentRepoPath]

\* The Map that set(repo.path, repo) builds from repositories of distinct paths
RepoMap(repos) ==
    [p \in {r.path : r \in repos} |-> CHOOSE r \in repos : r.path = p]

\* loadState, last branch: the freshly synthesized state
defaultState(id) ==
    [version |-> STATE_VERSION, activeChangelistId |-> id,
     changelists |-> <<Changelist(id, DefaultLabel, TRUE, TRUE)>>]

\* `x || this.repository.path` for an optional repoPath
orRepoPath(x) == IF x = NoPath THEN RepoPath ELSE x

\* A migration that does not look at the workspace root
tryMigrateLegacyState_AnyRoot(st, workspaceRoot) ==
    LET legacyState == st[LEGACY_STATE_KEY] IN
    IF legacyState = NoRecord THEN NoRecord
    ELSE [version |-> STATE_VERSION,
          activeChangelistId |-> legacyState.activeChangelistId,
          changelists |-> [i \in DOMAIN legacyState.changelists |->
            [legacyState.changelists[i] EXCEPT
                !.repoPath = RepoPath,
                !.shelvedFiles = [j \in DOMAIN @ |-> [@[j] EXCEPT !.repoPath = RepoPath]]]]]

\* tryMigrateLegacyState(): NoRecord stands for null
tryMigrateLegacyState(st, workspaceRoot) ==
    LET legacyState == st[LEGACY_STATE_KEY] IN
    IF legacyState = NoRecord THEN NoRecord
    ELSE IF workspaceRoot = NoPath
            \/ normalizePath(RepoPath) # normalizePath(workspaceRoot)
    THEN NoRecord
    ELSE [version |-> STATE_VERSION,
          activeChangelistId |-> legacyState.activeChangelistId,
          changelists |-> [i \in DOMAIN legacyState.changelists |->
            [legacyState.changelists[i] EXCEPT
                !.repoPath = RepoPath,
                !.shelvedFiles = [j \in DOMAIN @ |-> [@[j] EXCEPT !.repoPath = RepoPath]]]]]

\* upgradeState(oldState)
upgradeState(oldState) ==
    [version |-> STATE_VERSION,
     activeChangelistId |-> oldState.activeChangelistId,
     changelists |-> [i \in DOMAIN oldState.changelists |->
        [oldState.changelists[i] EXCEPT
            !.repoPath = orRepoPath(@),
            !.shelvedFiles = [j \in DOMAIN @ |->
                                [@[j] EXCEPT !.repoPath = orRepoPath(@)]]]]]

\* The branch loadState takes on what the store holds
loadBranch(st, workspaceRoot) ==
    IF st[StateKey] # NoRecord /\ st[StateKey].version = STATE_VERSION THEN "stored"
    ELSE IF tryMigrateLegacyState(st, workspaceRoot) # NoRecord THEN "legacy"
    ELSE IF st[StateKey] # NoRecord /\ st[StateKey].version < STATE_VERSION THEN "upgraded"
    ELSE "default"

\* A loadState that never writes what it made
loadSaves_Never(branch) == FALSE

\* loadState calls saveState in every branch but the first
loadSaves(branch) == branch # "stored"

\* loadState(): the state it returns; `id` is what generateId() gives
loadState(st, workspaceRoot, id) ==
    LET branch == loadBranch(st, workspaceRoot) IN
    IF branch = "stored" THEN st[StateKey]
    ELSE IF branch = "legacy" THEN tryMigrateLegacyState(st, workspaceRoot)
    ELSE IF branch = "upgraded" THEN upgradeState(st[StateKey])
    ELSE defaultState(id)

\* The store with these two records
StoreOf(stored, legacy) ==
    [k \in StoreKeys |-> IF k = StateKey THEN stored ELSE legacy]

\* Index in state.changelists of the changelist with this id, 0 if none
ClIndex(cls, id) ==
    IF \E i \in DOMAIN cls : cls[i].id = id
    THEN CHOOSE i \in DOMAIN cls : cls[i].id = id /\ \A j \in 1..(i - 1) : cls[j].id # id
    ELSE 0

\* A lookup that finds the first changelist that is not the default one
getChangelist_FirstShelf(id) ==
    IF ClIndex(state.changelists, id) = 0 THEN 0
    ELSE IF \E i \in DOMAIN state.changelists : ~state.changelists[i].isDefault
    THEN CHOOSE i \in DOMAIN state.changelists :
            /\ ~state.changelists[i].isDefault
            /\ \A j \in 1..(i - 1) : state.changelists[j].isDefault
    ELSE ClIndex(state.changelists, id)

\* getChangelist(id)
getChangelist(id) == ClIndex(state.changelists, id)

\* shelvedFiles.findIndex(f => normalizePath(f.relativePath) === normalizedPath)
findIndex(files, normalizedPath) ==
    IF \E j \in DOMAIN files : normalizePath(files[j].relativePath) = normalizedPath
    THEN CHOOSE j \in DOMAIN files :
            /\ normalizePath(files[j].relativePath) = normalizedPath
            /\ \A k \in 1..(j - 1) : normalizePath(files[k].relativePath) # normalizedPath
    ELSE 0

\* getDefaultChangelist()
getDefaultChangelist ==
    IF \E i \in DOMAIN state.changelists : state.changelists[i].isDefault
    THEN CHOOSE i \in DOMAIN state.changelists :
            /\ state.changelists[i].isDefault
            /\ \A j \in 1..(i - 1) : ~state.changelists[j].isDefault
    ELSE 0

\* History: the bytes on disk at `path` when the snapshot of (cl, path) was
\* taken, and those of the capture it replaced
Capture(cap, cl, path, bytes) ==
    LET old == {c \in cap : c.cl = cl /\ c.path = path} IN
    (cap \ old) \cup {[cl |-> cl, path |-> path, bytes |-> bytes,
                        prev |-> IF old = {} THEN NoCapture
                                 ELSE (CHOOSE c \in old : TRUE).bytes]}

\* History entries of snapshots that no longer exist are dropped
Prune(cap, st) ==
    {c \in cap : \E i \in DOMAIN st.changelists :
        /\ st.changelists[i].id = c.cl
        /\ findIndex(st.changelists[i].shelvedFiles, c.path) # 0}

\* saveState(): workspaceState.update(this.stateKey, this.state)
saveState(st) == [store EXCEPT ![StateKey] = st]

\* Stored records of an earlier session: the default changelist and two
\* changelists created by createChangelist, empty ...
SessionRecord ==
    [version |-> STATE_VERSION, activeChangelistId |-> 1,
     changelists |-> <<Changelist(1, DefaultLabel, TRUE, TRUE),
                       Changelist(2, LabelA, FALSE, FALSE),
                       Changelist(3, LabelUp, FALSE, FALSE)>>]

\* ... or the first one active (setActiveChangelist) and holding the snapshot
\* shelveFile took of f
ShelvedRecord ==
    [version |-> STATE_VERSION, activeChangelistId |-> 2,
     changelists |-> <<Changelist(1, DefaultLabel, TRUE, FALSE),
                       [Changelist(2, LabelA, FALSE, TRUE) EXCEPT !.shelvedFiles =
                            <<ShelvedFile(PF, "modified", TextB, TextA, 0)>>],
                       Changelist(3, LabelUp, FALSE, FALSE)>>]

-----------------------------------------------------------------------------
(* Control *)

Idle == [op |-> "idle", step |-> "", cl |-> 0, path |-> <<>>, i |-> 0,
         status |-> "", content |-> Undefined, bytes |-> NoFile,
         stashed |-> FALSE, rest |-> <<>>, data |-> <<>>, before |-> <<>>]

\* The step last taken; `again` marks a restore by unshelveFile that directly
\* follows a completed unshelveFile of the same snapshot; `versions` is what
\* getFileVersions returned
Step(op, step, err, cl, path) ==
    [op |-> op, step |-> step, err |-> err, cl |-> cl, path |-> path,
     again |-> FALSE, versions |-> <<>>]

CanStart == pc = Idle /\ ops > 0

\* Changelist ids a caller passes: those of the state, and one that is unknown
NoSuchId == 0
ClIds == {state.changelists[i].id : i \in DOMAIN state.changelists} \cup {NoSuchId}

-----------------------------------------------------------------------------
(* Initial state: the constructor has run loadState on what the store held *)

InitWith(records, maxOps, maxEdits) ==
    /\ \E stored \in records :
        /\ state = loadState(StoreOf(stored, NoRecord), RepoPath, 1)
        /\ store = StoreOf(state, NoRecord)
        /\ nextId = Len(state.changelists) + 1
        /\ config \in BOOLEAN
        /\ fs = [l \in FsLocs |->
                    IF l = Loc(PF) THEN TextB
                    ELSE IF l \in {Loc(PDF), OtherLoc} THEN TextA
                    ELSE IF config /\ stored = ShelvedRecord
                            /\ l = getSnapshotFilePath(stored.changelists[2].shelvedFiles[1],
                                                       stored.changelists[2])
                    THEN TextB
                    ELSE NoFile]
        /\ captured = IF stored = ShelvedRecord
                      THEN {[cl |-> 2, path |-> PF, bytes |-> TextB, prev |-> NoCapture]}
                      ELSE {}
    /\ changedFiles = [p \in WorkPaths |-> "none"]
    /\ head = [p \in WorkPaths |-> IF p = PF THEN TextA ELSE NoFile]
    /\ index = head
    /\ stash = <<>>
    /\ pc = Idle
    /\ last = Step("init", "", "none", 0, <<>>)
    /\ fired = 0
    /\ now = 0
    /\ ops = maxOps
    /\ edits = maxEdits
    /\ workspaceFolders = {RepoPath}
    /\ repositories = RepoMap({GitRepository(RepoPath, NoPath)})
    /\ calls = <<>>
    /\ services = NoServices

Init == InitWith({NoRecord, SessionRecord, ShelvedRecord}, MaxOps, MaxEdits)

-----------------------------------------------------------------------------
(* The environment: the user edits the working tree; refresh() *)

\* The user writes or deletes a working file.
UserEdit(p, bytes) ==
    /\ edits > 0
    /\ pc = Idle
    /\ fs[Loc(p)] # bytes
    /\ fs' = [fs EXCEPT ![Loc(p)] = bytes]
    /\ edits' = edits - 1
    /\ last' = Step("env", "", "none", 0, <<>>)
    /\ UNCHANGED <<state, changedFiles, store, head, index, stash, config, pc,
                   fired, now, nextId, ops, captured>>
    /\ sessionFrame

\* refresh() called by the file watcher or on activation, between operations:
\* git.status() then updateChangedFiles; an error of git.status is logged and
\* leaves the cache as it was.
Refresh ==
    /\ pc = Idle
    /\ \E ok \in BOOLEAN :
        /\ changedFiles' = IF ok THEN updateChangedFiles ELSE changedFiles
        /\ last' = Step("env", "", "none", 0, <<>>)
    /\ changedFiles' # changedFiles \/ last.op # "env"
    /\ UNCHANGED <<state, store, fs, head, index, stash, config, pc, fired, now,
                   nextId, ops, edits, captured>>
    /\ sessionFrame

-----------------------------------------------------------------------------
(* Restoring a snapshot *)

\* The file unshelveFileInternal acts on
unshelveTarget(shelvedFile) ==
    getAbsolutePathFromRepo(shelvedFile.relativePath,
        IF shelvedFile.repoPath # <<>> THEN shelvedFile.repoPath ELSE RepoPath)

\* `else if (shelvedFile.patch)`: a snapshot of the versions that stored a diff
\* and no content.  A patch is modelled as <<before, after>>: the bytes of the
\* file it was taken from and the bytes it produces.
isLegacyPatch(shelvedFile) ==
    /\ shelvedFile.status # "deleted"
    /\ shelvedFile.originalContent = Undefined
    /\ shelvedFile.patch # <<>>

\* The file `git apply` patches: the path in the patch, from the directory of
\* this.git, which is this.repository.path
patchTarget(shelvedFile) == getAbsolutePathFromRepo(shelvedFile.relativePath, RepoPath)

\* git apply accepts the patch when the file still holds what it was taken from
patchApplies(files, shelvedFile) ==
    files[patchTarget(shelvedFile)] = shelvedFile.patch[1]

\* git.raw(['apply', patchPath]) when it succeeds; temp-patch.patch is written
\* before and unlinked after, so it is not followed
gitApply(files, shelvedFile) ==
    [files EXCEPT ![patchTarget(shelvedFile)] = shelvedFile.patch[2]]

\* A restore that appends the content to the file instead of replacing it
unshelveFileInternal_Append(files, shelvedFile) ==
    IF shelvedFile.status = "deleted"
    THEN [files EXCEPT ![unshelveTarget(shelvedFile)] = NoFile]
    ELSE IF shelvedFile.originalContent # Undefined
    THEN [files EXCEPT ![unshelveTarget(shelvedFile)] =
            (IF @ = NoFile THEN <<>> ELSE @) \o utf8Encode(shelvedFile.originalContent)]
    ELSE IF isLegacyPatch(shelvedFile)
    THEN gitApply(files, shelvedFile)
    ELSE files

\* unshelveFileInternal(shelvedFile): the file system it leaves when no call of
\* fs or git throws.  A snapshot of status 'deleted' unlinks the file; one with
\* content is written; one with a patch only has it applied; one with none of
\* these changes nothing.
unshelveFileInternal(files, shelvedFile) ==
    IF shelvedFile.status = "deleted"
    THEN [files EXCEPT ![unshelveTarget(shelvedFile)] = NoFile]
    ELSE IF shelvedFile.originalContent # Undefined
    THEN [files EXCEPT ![unshelveTarget(shelvedFile)] =
                            utf8Encode(shelvedFile.originalContent)]
    ELSE IF isLegacyPatch(shelvedFile)
    THEN gitApply(files, shelvedFile)
    ELSE files

\* unshelveFileInternal calls fs.unlinkSync or fs.writeFileSync, which can
\* throw, or git apply, which can fail
unshelveTouchesDisk(files, shelvedFile) ==
    \/ shelvedFile.status = "deleted" /\ files[unshelveTarget(shelvedFile)] # NoFile
    \/ shelvedFile.status # "deleted" /\ shelvedFile.originalContent # Undefined
    \/ isLegacyPatch(shelvedFile)

\* The outcomes of one call: TRUE (returned) or FALSE (threw)
UnshelveOutcomes(files, shelvedFile) ==
    IF isLegacyPatch(shelvedFile) /\ ~patchApplies(files, shelvedFile) THEN {FALSE}
    ELSE IF unshelveTouchesDisk(files, shelvedFile) THEN BOOLEAN ELSE {TRUE}

-----------------------------------------------------------------------------
(* Steps shared by the methods *)

\* A method throws: nothing more of it runs.
\* The error is swallowed: the method returns as if it had succeeded
Throw_Swallowed(op, err, cl, path) ==
    /\ pc' = Idle
    /\ last' = Step(op, "done", "none", cl, path)

Throw(op, err, cl, path) ==
    /\ pc' = Idle
    /\ last' = Step(op, "failed", err, cl, path)

\* The last statement of most methods: this._onDidChangeChangelists.fire()
FireAndReturn ==
    /\ fired' = fired + 1
    /\ pc' = Idle
    /\ last' = Step(pc.op, "done", "none", pc.cl, pc.path)

\* `await this.refresh()` resumes: git.status() answered (or failed, which
\* refresh logs), then the method fires and returns.
RefreshFireAndReturn ==
    /\ \E ok \in BOOLEAN :
        changedFiles' = IF ok THEN updateChangedFiles ELSE changedFiles
    /\ FireAndReturn

-----------------------------------------------------------------------------
(* createChangelist, renameChangelist, setActiveChangelist *)

\* createChangelist(label), to the await of saveState
createChangelist_Start(label) ==
    /\ CanStart
    /\ Len(state.changelists) < MaxChangelists
    /\ state' = [state EXCEPT !.changelists =
                    Append(@, Changelist(nextId, label, FALSE, FALSE))]
    /\ nextId' = nextId + 1
    /\ store' = saveState(state')
    /\ pc' = [Idle EXCEPT !.op = "createChangelist", !.step = "saved", !.cl = nextId]
    /\ last' = Step("createChangelist", "saved", "none", nextId, <<>>)
    /\ ops' = ops - 1
    /\ UNCHANGED <<changedFiles, fs, head, index, stash, config, fired, now,
                   edits, captured>>
    /\ sessionFrame

createChangelist_Fire ==
    /\ pc.op = "createChangelist" /\ pc.step = "saved"
    /\ FireAndReturn
    /\ UNCHANGED <<state, changedFiles, store, fs, head, index, stash, config,
                   now, nextId, ops, edits, captured>>
    /\ sessionFrame

\* renameChangelist(id, newLabel), to the await of saveState
renameChangelist_Start(id, newLabel) ==
    /\ CanStart
    /\ ops' = ops - 1
    /\ LET i == getChangelist(id) IN
        IF i = 0
        THEN /\ Throw("renameChangelist", "ChangelistNotFound", id, <<>>)
             /\ UNCHANGED <<state, store>>
        ELSE /\ state' = [state EXCEPT !.changelists[i].label = newLabel]
             /\ store' = saveState(state')
             /\ pc' = [Idle EXCEPT !.op = "renameChangelist", !.step = "saved", !.cl = id]
             /\ last' = Step("renameChangelist", "saved", "none", id, <<>>)
    /\ UNCHANGED <<changedFiles, fs, head, index, stash, config, fired, now,
                   nextId, edits, captured>>
    /\ sessionFrame

renameChangelist_Fire ==
    /\ pc.op = "renameChangelist" /\ pc.step = "saved"
    /\ FireAndReturn
    /\ UNCHANGED <<state, changedFiles, store, fs, head, index, stash, config,
                   now, nextId, ops, edits, captured>>
    /\ sessionFrame

\* setActiveChangelist without its loop
clearActive_None(cls) == cls

\* The loop of setActiveChangelist: cl.isActive = false for every changelist
clearActive(cls) == [i \in DOMAIN cls |-> [cls[i] EXCEPT !.isActive = FALSE]]

\* setActiveChangelist(id), to the await of saveState
setActiveChangelist_Start(id) ==
    /\ CanStart
    /\ ops' = ops - 1
    /\ LET i == getChangelist(id) IN
        IF i = 0
        THEN /\ Throw("setActiveChangelist", "ChangelistNotFound", id, <<>>)
             /\ UNCHANGED <<state, store>>
        ELSE /\ state' = [state EXCEPT
                    !.changelists = [clearActive(@) EXCEPT ![i].isActive = TRUE],
                    !.activeChangelistId = id]
             /\ store' = saveState(state')
             /\ pc' = [Idle EXCEPT !.op = "setActiveChangelist", !.step = "saved", !.cl = id]
             /\ last' = Step("setActiveChangelist", "saved", "none", id, <<>>)
    /\ UNCHANGED <<changedFiles, fs, head, index, stash, config, fired, now,
                   nextId, edits, captured>>
    /\ sessionFrame

setActiveChangelist_Fire ==
    /\ pc.op = "setActiveChangelist" /\ pc.step = "saved"
    /\ FireAndReturn
    /\ UNCHANGED <<state, changedFiles, store, fs, head, index, stash, config,
                   now, nextId, ops, edits, captured>>
    /\ sessionFrame

-----------------------------------------------------------------------------
(* deleteChangelist *)

\* A filter that drops nothing
removeChangelist_Keeps(cls, id) == cls

\* state.changelists.filter(cl => cl.id !== id)
RECURSIVE removeChangelist(_, _)
removeChangelist(cls, id) ==
    IF cls = <<>> THEN <<>>
    ELSE IF Head(cls).id = id THEN removeChangelist(Tail(cls), id)
    ELSE <<Head(cls)>> \o removeChangelist(Tail(cls), id)

\* A removal that leaves the active flag with the changelist it removes
removeAndTransfer_NoTransfer(st, id) ==
    [st EXCEPT !.changelists = removeChangelist(@, id)]

\* deleteChangelist after its loop: the changelist is filtered out; if it
\* was active the default changelist becomes active.
removeAndTransfer(st, id) ==
    LET i == ClIndex(st.changelists, id)
        wasActive == st.changelists[i].isActive
        rest == removeChangelist(st.changelists, id)
        d == IF \E k \in DOMAIN rest : rest[k].isDefault
             THEN CHOOSE k \in DOMAIN rest :
                    rest[k].isDefault /\ \A j \in 1..(k - 1) : ~rest[j].isDefault
             ELSE 0
    IN  IF wasActive /\ d # 0
        THEN [st EXCEPT !.changelists = [rest EXCEPT ![d].isActive = TRUE],
                        !.activeChangelistId = rest[d].id]
        ELSE [st EXCEPT !.changelists = rest]

\* deleteChangelist without its check of the default changelist
deleteRefused_Never(i) == FALSE

\* `if (changelist.isDefault) throw new Error('Cannot delete default changelist')`
deleteRefused(i) == state.changelists[i].isDefault

\* deleteChangelist(id): the checks, then either the first restore of the loop
\* or, for an empty changelist, the removal and saveState
deleteChangelist_Start(id) ==
    /\ CanStart
    /\ ops' = ops - 1
    /\ LET i == getChangelist(id) IN
        IF i = 0
        THEN /\ Throw("deleteChangelist", "ChangelistNotFound", id, <<>>)
             /\ UNCHANGED <<state, store, fs, captured>>
        ELSE IF deleteRefused(i)
        THEN /\ Throw("deleteChangelist", "CannotDeleteDefault", id, <<>>)
             /\ UNCHANGED <<state, store, fs, captured>>
        ELSE IF Len(state.changelists[i].shelvedFiles) > 0
        THEN LET sf == state.changelists[i].shelvedFiles[1] IN
             \E ok \in UnshelveOutcomes(fs, sf) :
                IF ok
                THEN /\ fs' = unshelveFileInternal(fs, sf)
                     /\ pc' = [Idle EXCEPT !.op = "deleteChangelist", !.step = "loop",
                                           !.cl = id, !.i = 1]
                     /\ last' = Step("deleteChangelist", "loop", "none", id, <<>>)
                     /\ UNCHANGED <<state, store, captured>>
                ELSE /\ Throw("deleteChangelist", "IOFailure", id, <<>>)
                     /\ UNCHANGED <<state, store, fs, captured>>
        ELSE /\ state' = removeAndTransfer(state, id)
             /\ store' = saveState(state')
             /\ pc' = [Idle EXCEPT !.op = "deleteChangelist", !.step = "saved", !.cl = id]
             /\ last' = Step("deleteChangelist", "saved", "none", id, <<>>)
             /\ captured' = Prune(captured, state')
             /\ UNCHANGED fs
    /\ UNCHANGED <<changedFiles, head, index, stash, config, fired, now,
                   nextId, edits>>
    /\ sessionFrame

\* The loop resumes after `await this.unshelveFileInternal(...)`: the next
\* snapshot is restored, or after the last one the changelist is removed.
deleteChangelist_Loop ==
    /\ pc.op = "deleteChangelist" /\ pc.step = "loop"
    /\ LET i == getChangelist(pc.cl)
           files == state.changelists[i].shelvedFiles IN
        IF pc.i < Len(files)
        THEN \E ok \in UnshelveOutcomes(fs, files[pc.i + 1]) :
                IF ok
                THEN /\ fs' = unshelveFileInternal(fs, files[pc.i + 1])
                     /\ pc' = [pc EXCEPT !.i = pc.i + 1]
                     /\ last' = Step("deleteChangelist", "loop", "none", pc.cl, <<>>)
                     /\ UNCHANGED <<state, store, captured>>
                ELSE /\ Throw("deleteChangelist", "IOFailure", pc.cl, <<>>)
                     /\ UNCHANGED <<state, store, fs, captured>>
        ELSE /\ state' = removeAndTransfer(state, pc.cl)
             /\ store' = saveState(state')
             /\ pc' = [pc EXCEPT !.step = "saved"]
             /\ last' = Step("deleteChangelist", "saved", "none", pc.cl, <<>>)
             /\ captured' = Prune(captured, state')
             /\ UNCHANGED fs
    /\ UNCHANGED <<changedFiles, head, index, stash, config, fired, now,
                   nextId, ops, edits>>
    /\ sessionFrame

\* After saveState: `await this.refresh()`, then the event
deleteChangelist_Finish ==
    /\ pc.op = "deleteChangelist" /\ pc.step = "saved"
    /\ RefreshFireAndReturn
    /\ UNCHANGED <<state, store, fs, head, index, stash, config, now, nextId,
                   ops, edits, captured>>
    /\ sessionFrame

-----------------------------------------------------------------------------
(* shelveFile, shelveFiles *)

\* saveSnapshotToFile(shelvedFile, changelist): with the mirror enabled and a
\* non-empty content the mirror file is written; a failure is logged only.
saveSnapshotToFile(files, shelvedFile, changelist, written) ==
    IF config /\ shelvedFile.originalContent # Undefined
              /\ shelvedFile.originalContent # <<>> /\ written
    THEN [files EXCEPT ![getSnapshotFilePath(shelvedFile, changelist)] =
                            utf8Encode(shelvedFile.originalContent)]
    ELSE files

\* shelveFile that always pushes the new snapshot
putSnapshot_Append(files, shelvedFile) == Append(files, shelvedFile)

\* The changelist's files after shelveFile stored the snapshot: an existing
\* snapshot of the path is replaced, else the new one is appended.
putSnapshot(files, shelvedFile) ==
    LET j == findIndex(files, shelvedFile.relativePath) IN
    IF j > 0 THEN [files EXCEPT ![j] = shelvedFile] ELSE Append(files, shelvedFile)

\* shelveFile from findIndex to the await of saveSnapshotToFile
shelveStore(op, cl, path, status, content, bytes, headContent, rest) ==
    LET i == getChangelist(cl) IN
    \E t \in now..Min(now + 1, MaxClock), written \in BOOLEAN :
        LET sf == ShelvedFile(path, status, content, headContent, t) IN
        /\ written \/ (config /\ content # Undefined /\ content # <<>>)
        /\ now' = t
        /\ state' = [state EXCEPT !.changelists[i].shelvedFiles = putSnapshot(@, sf)]
        /\ fs' = saveSnapshotToFile(fs, sf, state.changelists[i], written)
        /\ captured' = Capture(captured, cl, path, bytes)
        /\ pc' = [Idle EXCEPT !.op = op, !.step = "stored", !.cl = cl,
                              !.path = path, !.rest = rest]
        /\ last' = Step(op, "stored", "none", cl, path)

\* shelveFile without its check of the default changelist
shelveRefused_Never(i) == FALSE

\* `if (changelist.isDefault) throw new Error('Cannot save to default changelist')`
shelveRefused(i) == state.changelists[i].isDefault

\* shelveFile(relativePath, targetChangelistId) from its entry to its first await
shelveEnter(op, relativePath, target, rest) ==
    LET np == normalizePath(relativePath)
        status == IF np \in WorkPaths THEN changedFiles[np] ELSE "none"
        i == getChangelist(target)
        quiet == UNCHANGED <<state, fs, captured, now>>
    IN  IF status = "none"
        THEN Throw(op, "FileNotInChanges", target, relativePath) /\ quiet
        ELSE IF i = 0
        THEN Throw(op, "ChangelistNotFound", target, relativePath) /\ quiet
        ELSE IF shelveRefused(i)
        THEN Throw(op, "CannotSaveToDefault", target, relativePath) /\ quiet
        ELSE \E readOk \in (IF status # "deleted" /\ fs[Loc(np)] # NoFile
                            THEN BOOLEAN ELSE {TRUE}) :
            IF ~readOk
            THEN Throw(op, "IOFailure", target, relativePath) /\ quiet
            ELSE LET content == IF status # "deleted" /\ fs[Loc(np)] # NoFile
                                THEN utf8Decode(fs[Loc(np)]) ELSE Undefined
                 IN  IF status # "untracked"
                     THEN /\ pc' = [Idle EXCEPT !.op = op, !.step = "show",
                                !.cl = target, !.path = np, !.status = status,
                                !.content = content, !.bytes = fs[Loc(np)],
                                !.rest = rest]
                          /\ last' = Step(op, "show", "none", target, np)
                          /\ quiet
                     ELSE shelveStore(op, target, np, status, content,
                                      fs[Loc(np)], Undefined, rest)

shelveFrame == UNCHANGED <<changedFiles, store, head, index, stash, config,
                           fired, nextId, edits>>

shelveFile_Start(relativePath, target) ==
    /\ CanStart
    /\ ops' = ops - 1
    /\ shelveEnter("shelveFile", relativePath, target, <<>>)
    /\ shelveFrame
    /\ sessionFrame

\* shelveFiles(relativePaths, target): the first shelveFile of the loop
shelveFiles_Start(relativePaths, target) ==
    /\ CanStart
    /\ ops' = ops - 1
    /\ shelveEnter("shelveFiles", Head(relativePaths), target, Tail(relativePaths))
    /\ shelveFrame
    /\ sessionFrame

\* git.show(['HEAD:path']) answered: the content of HEAD, or an error
\* (no such file in HEAD, or git failed), which leaves headContent undefined
shelve_AfterShow ==
    /\ pc.op \in {"shelveFile", "shelveFiles"} /\ pc.step = "show"
    /\ \E headContent \in {Undefined} \cup
            (IF head[pc.path] # NoFile THEN {utf8Decode(head[pc.path])} ELSE {}) :
        shelveStore(pc.op, pc.cl, pc.path, pc.status, pc.content, pc.bytes,
                    headContent, pc.rest)
    /\ UNCHANGED ops
    /\ shelveFrame
    /\ sessionFrame

\* saveSnapshotToFile returned: saveState()
shelve_Save ==
    /\ pc.op \in {"shelveFile", "shelveFiles"} /\ pc.step = "stored"
    /\ store' = saveState(state)
    /\ pc' = [pc EXCEPT !.step = "saved"]
    /\ last' = Step(pc.op, "saved", "none", pc.cl, pc.path)
    /\ UNCHANGED <<state, changedFiles, fs, head, index, stash, config, fired,
                   now, nextId, ops, edits, captured>>
    /\ sessionFrame

\* saveState returned: the event; shelveFiles then enters the next shelveFile
shelve_Fire ==
    /\ pc.op \in {"shelveFile", "shelveFiles"} /\ pc.step = "saved"
    /\ fired' = fired + 1
    /\ IF pc.rest = <<>>
       THEN /\ pc' = Idle
            /\ last' = Step(pc.op, "done", "none", pc.cl, pc.path)
            /\ UNCHANGED <<state, fs, captured, now>>
       ELSE shelveEnter(pc.op, Head(pc.rest), pc.cl, Tail(pc.rest))
    /\ UNCHANGED <<changedFiles, store, head, index, stash, config, nextId,
                   ops, edits>>
    /\ sessionFrame

-----------------------------------------------------------------------------
(* unshelveFile, unshelveAll *)

\* A restore that empties the shelves, as the first versions did
restoreFrame_Consumes ==
    /\ state' = [state EXCEPT !.changelists =
                    [i \in DOMAIN @ |-> [@[i] EXCEPT !.shelvedFiles = <<>>]]]
    /\ UNCHANGED <<changedFiles, store, head, index, stash, config, fired, now,
                   nextId, edits, captured>>

\* unshelveFile and unshelveAll assign none of these
restoreFrame == UNCHANGED <<state, changedFiles, store, head, index, stash,
                            config, fired, now, nextId, edits, captured>>

\* unshelveFile(changelistId, relativePath), to the await of git.status() in refresh
unshelveFile_Start(id, relativePath) ==
    /\ CanStart
    /\ ops' = ops - 1
    /\ LET i == getChangelist(id)
           np == normalizePath(relativePath)
           j == IF i = 0 THEN 0 ELSE findIndex(state.changelists[i].shelvedFiles, np)
       IN  IF i = 0
           THEN Throw("unshelveFile", "ChangelistNotFound", id, relativePath) /\ UNCHANGED fs
           ELSE IF j = 0
           THEN Throw("unshelveFile", "FileNotInChangelist", id, relativePath) /\ UNCHANGED fs
           ELSE LET sf == state.changelists[i].shelvedFiles[j] IN
                \E ok \in UnshelveOutcomes(fs, sf) :
                    IF ok
                    THEN /\ fs' = unshelveFileInternal(fs, sf)
                         /\ pc' = [Idle EXCEPT !.op = "unshelveFile", !.step = "restored",
                                               !.cl = id, !.path = np]
                         /\ last' = [Step("unshelveFile", "restored", "none", id, np)
                                        EXCEPT !.again =
                                            (last = Step("unshelveFile", "done", "none", id, np))]
                    ELSE Throw("unshelveFile", "IOFailure", id, relativePath) /\ UNCHANGED fs
    /\ restoreFrame
    /\ sessionFrame

unshelveFile_Finish ==
    /\ pc.op = "unshelveFile" /\ pc.step = "restored"
    /\ RefreshFireAndReturn
    /\ UNCHANGED <<state, store, fs, head, index, stash, config, now, nextId,
                   ops, edits, captured>>
    /\ sessionFrame

\* One turn of `for (const shelvedFile of changelist.shelvedFiles) await
\* this.unshelveFileInternal(shelvedFile)`: the snapshot after the first
\* `done` ones is restored onto `tree`; after the last one the method goes on
\* to `after`.
restoreFrom(base, op, id, done, after, tree) ==
    LET i == getChangelist(id)
        files == state.changelists[i].shelvedFiles IN
    IF done < Len(files)
    THEN \E ok \in UnshelveOutcomes(tree, files[done + 1]) :
            IF ok
            THEN /\ fs' = unshelveFileInternal(tree, files[done + 1])
                 /\ pc' = [Idle EXCEPT !.op = op, !.cl = id, !.i = done + 1,
                        !.step = IF done + 1 = Len(files) THEN after ELSE "loop",
                        !.stashed = base.stashed,
                        !.before = base.before]
                 /\ last' = Step(op, "loop", "none", id, files[done + 1].relativePath)
            ELSE Throw(op, "IOFailure", id, files[done + 1].relativePath) /\ fs' = tree
    ELSE /\ pc' = [Idle EXCEPT !.op = op, !.step = after, !.cl = id,
                               !.stashed = base.stashed, !.before = base.before]
         /\ last' = Step(op, after, "none", id, <<>>)
         /\ fs' = tree

restoreNext(op, id, done, after, tree) == restoreFrom(pc, op, id, done, after, tree)

\* unshelveAll(changelistId)
unshelveAll_Start(id) ==
    /\ CanStart
    /\ ops' = ops - 1
    /\ IF getChangelist(id) = 0
       THEN Throw("unshelveAll", "ChangelistNotFound", id, <<>>) /\ UNCHANGED fs
       ELSE restoreNext("unshelveAll", id, 0, "restored", fs)
    /\ restoreFrame
    /\ sessionFrame

unshelveAll_Loop ==
    /\ pc.op = "unshelveAll" /\ pc.step = "loop"
    /\ restoreNext("unshelveAll", pc.cl, pc.i, "restored", fs)
    /\ UNCHANGED ops
    /\ restoreFrame
    /\ sessionFrame

unshelveAll_Finish ==
    /\ pc.op = "unshelveAll" /\ pc.step = "restored"
    /\ RefreshFireAndReturn
    /\ UNCHANGED <<state, store, fs, head, index, stash, config, now, nextId,
                   ops, edits, captured>>
    /\ sessionFrame

-----------------------------------------------------------------------------
(* git: add, commit, stash *)

\* `git add paths` succeeds when every path names a file of the working tree
\* or of the index; it then stages the working tree's content of each.
gitAddMatches(paths) ==
    \A k \in DOMAIN paths :
        /\ paths[k] \in WorkPaths
        /\ (fs[Loc(paths[k])] # NoFile \/ index[paths[k]] # NoFile)

\* A `git add` that stages every file of the working tree
gitAdd_All(paths) == [p \in WorkPaths |-> fs[Loc(p)]]

gitAdd(paths) ==
    [p \in WorkPaths |->
        IF \E k \in DOMAIN paths : paths[k] = p THEN fs[Loc(p)] ELSE index[p]]

\* `git commit`: HEAD takes what the index holds
gitCommit == index

\* A work path git tracks
Tracked(p) == index[p] # NoFile \/ head[p] # NoFile

\* `git stash push` saves something only if a tracked file differs from HEAD
hasLocalChanges ==
    \E p \in WorkPaths :
        index[p] # head[p] \/ (index[p] # NoFile /\ fs[Loc(p)] # index[p])

StashEntry == [idx |-> index, wt |-> [p \in WorkPaths |-> fs[Loc(p)]], base |-> head]

\* The working tree after `git stash push`: tracked files as in HEAD
stashedTree ==
    [l \in FsLocs |->
        IF \E p \in WorkPaths : Loc(p) = l /\ Tracked(p)
        THEN head[CHOOSE p \in WorkPaths : Loc(p) = l]
        ELSE fs[l]]

\* The paths a stash entry changes
stashChanges(s) ==
    {p \in WorkPaths : (s.idx[p] # NoFile \/ s.base[p] # NoFile) /\ s.wt[p] # s.base[p]}

\* `git stash pop` applies when each file the entry changes is clean (working
\* tree and index as HEAD) and HEAD holds of it what the entry was made on or
\* what the entry brings; else the merge conflicts
stashApplies(s) ==
    \A p \in stashChanges(s) :
        /\ fs[Loc(p)] = head[p] /\ index[p] = head[p]
        /\ head[p] = s.base[p] \/ head[p] = s.wt[p]

poppedTree(s) ==
    [l \in FsLocs |->
        IF \E p \in stashChanges(s) : Loc(p) = l
        THEN s.wt[CHOOSE p \in stashChanges(s) : Loc(p) = l]
        ELSE fs[l]]

poppedIndex(s) ==
    [p \in WorkPaths |->
        IF p \in stashChanges(s) /\ s.base[p] = NoFile THEN s.wt[p] ELSE index[p]]

-----------------------------------------------------------------------------
(* applyAndStage, applyAllAndStage *)

stageFrame == UNCHANGED <<state, changedFiles, store, head, stash, config,
                          fired, now, nextId, edits, captured>>

\* applyAndStage(changelistId, relativePath), to the await of git.add
applyAndStage_Start(id, relativePath) ==
    /\ CanStart
    /\ ops' = ops - 1
    /\ LET i == getChangelist(id)
           np == normalizePath(relativePath)
           j == IF i = 0 THEN 0 ELSE findIndex(state.changelists[i].shelvedFiles, np)
       IN  IF i = 0
           THEN Throw("applyAndStage", "ChangelistNotFound", id, relativePath) /\ UNCHANGED fs
           ELSE IF j = 0
           THEN Throw("applyAndStage", "FileNotInChangelist", id, relativePath) /\ UNCHANGED fs
           ELSE LET sf == state.changelists[i].shelvedFiles[j] IN
                \E ok \in UnshelveOutcomes(fs, sf) :
                    IF ok
                    THEN /\ fs' = unshelveFileInternal(fs, sf)
                         /\ pc' = [Idle EXCEPT !.op = "applyAndStage", !.step = "add",
                                               !.cl = id, !.path = np]
                         /\ last' = Step("applyAndStage", "restored", "none", id, np)
                    ELSE Throw("applyAndStage", "IOFailure", id, relativePath) /\ UNCHANGED fs
    /\ UNCHANGED index
    /\ stageFrame
    /\ sessionFrame

\* git.add([normalizedPath]) answered
applyAndStage_AfterAdd ==
    /\ pc.op = "applyAndStage" /\ pc.step = "add"
    /\ \E ok \in {b \in BOOLEAN : b => gitAddMatches(<<pc.path>>)} :
        IF ok
        THEN /\ index' = gitAdd(<<pc.path>>)
             /\ pc' = [pc EXCEPT !.step = "staged"]
             /\ last' = Step("applyAndStage", "staged", "none", pc.cl, pc.path)
        ELSE Throw("applyAndStage", "GitFailure", pc.cl, pc.path) /\ UNCHANGED index
    /\ UNCHANGED <<fs, ops>>
    /\ stageFrame
    /\ sessionFrame

applyAndStage_Finish ==
    /\ pc.op = "applyAndStage" /\ pc.step = "staged"
    /\ RefreshFireAndReturn
    /\ UNCHANGED <<state, store, fs, head, index, stash, config, now, nextId,
                   ops, edits, captured>>
    /\ sessionFrame

\* changelist.shelvedFiles.map(f => f.relativePath)
filePaths(files) == [k \in DOMAIN files |-> files[k].relativePath]

\* applyAllAndStage(changelistId)
applyAllAndStage_Start(id) ==
    /\ CanStart
    /\ ops' = ops - 1
    /\ LET i == getChangelist(id) IN
       IF i = 0
       THEN Throw("applyAllAndStage", "ChangelistNotFound", id, <<>>) /\ UNCHANGED fs
       ELSE IF Len(state.changelists[i].shelvedFiles) = 0
       THEN Throw("applyAllAndStage", "NoFilesInChangelist", id, <<>>) /\ UNCHANGED fs
       ELSE restoreNext("applyAllAndStage", id, 0, "add", fs)
    /\ UNCHANGED index
    /\ stageFrame
    /\ sessionFrame

applyAllAndStage_Loop ==
    /\ pc.op = "applyAllAndStage" /\ pc.step = "loop"
    /\ restoreNext("applyAllAndStage", pc.cl, pc.i, "add", fs)
    /\ UNCHANGED <<index, ops>>
    /\ stageFrame
    /\ sessionFrame

\* git.add(filePaths) answered
applyAllAndStage_AfterAdd ==
    /\ pc.op = "applyAllAndStage" /\ pc.step = "add"
    /\ LET paths == filePaths(state.changelists[getChangelist(pc.cl)].shelvedFiles) IN
       \E ok \in {b \in BOOLEAN : b => gitAddMatches(paths)} :
        IF ok
        THEN /\ index' = gitAdd(paths)
             /\ pc' = [pc EXCEPT !.step = "staged"]
             /\ last' = Step("applyAllAndStage", "staged", "none", pc.cl, <<>>)
        ELSE Throw("applyAllAndStage", "GitFailure", pc.cl, <<>>) /\ UNCHANGED index
    /\ UNCHANGED <<fs, ops>>
    /\ stageFrame
    /\ sessionFrame

applyAllAndStage_Finish ==
    /\ pc.op = "applyAllAndStage" /\ pc.step = "staged"
    /\ RefreshFireAndReturn
    /\ UNCHANGED <<state, store, fs, head, index, stash, config, now, nextId,
                   ops, edits, captured>>
    /\ sessionFrame

-----------------------------------------------------------------------------
(* deleteShelvedFile *)

\* deleteSnapshotFile(shelvedFile, changelist): with the mirror enabled the
\* mirror file is unlinked if it exists; a failure is logged only.
deleteSnapshotFile(files, shelvedFile, changelist, unlinked) ==
    IF config /\ unlinked
    THEN [files EXCEPT ![getSnapshotFilePath(shelvedFile, changelist)] = NoFile]
    ELSE files

\* shelvedFiles.filter(f => normalizePath(f.relativePath) !== normalizedPath)
RECURSIVE removeSnapshot(_, _)
removeSnapshot(files, normalizedPath) ==
    IF files = <<>> THEN <<>>
    ELSE IF normalizePath(Head(files).relativePath) = normalizedPath
    THEN removeSnapshot(Tail(files), normalizedPath)
    ELSE <<Head(files)>> \o removeSnapshot(Tail(files), normalizedPath)

\* deleteShelvedFile(changelistId, relativePath), to the await of saveState
deleteShelvedFile_Start(id, relativePath) ==
    /\ CanStart
    /\ ops' = ops - 1
    /\ LET i == getChangelist(id)
           np == normalizePath(relativePath)
           j == IF i = 0 THEN 0 ELSE findIndex(state.changelists[i].shelvedFiles, np)
       IN  IF i = 0
           THEN /\ Throw("deleteShelvedFile", "ChangelistNotFound", id, relativePath)
                /\ UNCHANGED <<state, store, fs, captured>>
           ELSE /\ \E unlinked \in BOOLEAN :
                    /\ unlinked \/ (config /\ j # 0)
                    /\ fs' = IF j = 0 THEN fs
                             ELSE deleteSnapshotFile(fs, state.changelists[i].shelvedFiles[j],
                                                     state.changelists[i], unlinked)
                /\ state' = [state EXCEPT !.changelists[i].shelvedFiles =
                                removeSnapshot(@, np)]
                /\ store' = saveState(state')
                /\ captured' = Prune(captured, state')
                /\ pc' = [Idle EXCEPT !.op = "deleteShelvedFile", !.step = "saved",
                                      !.cl = id, !.path = np]
                /\ last' = Step("deleteShelvedFile", "saved", "none", id, np)
    /\ UNCHANGED <<changedFiles, head, index, stash, config, fired, now, nextId, edits>>
    /\ sessionFrame

deleteShelvedFile_Fire ==
    /\ pc.op = "deleteShelvedFile" /\ pc.step = "saved"
    /\ FireAndReturn
    /\ UNCHANGED <<state, changedFiles, store, fs, head, index, stash, config,
                   now, nextId, ops, edits, captured>>
    /\ sessionFrame

-----------------------------------------------------------------------------
(* commitWorkingChanges, commitChangelist *)

\* A sequence of the elements of a set of paths
RECURSIVE SeqOf(_)
SeqOf(S) == IF S = {} THEN <<>>
            ELSE LET x == CHOOSE x \in S : TRUE IN <<x>> \o SeqOf(S \ {x})

\* getChangedFiles().map(f => f.relativePath)
changedPaths == SeqOf({p \in WorkPaths : changedFiles[p] # "none"})

commitFrame == UNCHANGED <<changedFiles, config, fired, now, nextId, edits>>

\* History: the working tree, the index and HEAD when commitChangelist was
\* called, and the paths of the snapshots the changelist then held
Before(id) ==
    [tree |-> [p \in WorkPaths |-> fs[Loc(p)]], index |-> index, head |-> head,
     stash |-> stash,
     paths |-> {normalizePath(state.changelists[getChangelist(id)].shelvedFiles[j].relativePath) :
                    j \in DOMAIN state.changelists[getChangelist(id)].shelvedFiles}]

\* commitChangelist(changelistId, message), to its first await
commitChangelist_Start(id) ==
    /\ CanStart
    /\ ops' = ops - 1
    /\ LET i == getChangelist(id) IN
       IF i = 0
       THEN Throw("commitChangelist", "ChangelistNotFound", id, <<>>) /\ UNCHANGED fs
       ELSE IF state.changelists[i].isDefault
       THEN IF changedPaths = <<>>
            THEN Throw("commitWorkingChanges", "NoFilesToCommit", id, <<>>) /\ UNCHANGED fs
            ELSE /\ pc' = [Idle EXCEPT !.op = "commitWorkingChanges", !.step = "add", !.cl = id]
                 /\ last' = Step("commitWorkingChanges", "add", "none", id, <<>>)
                 /\ UNCHANGED fs
       ELSE IF Len(state.changelists[i].shelvedFiles) = 0
       THEN Throw("commitChangelist", "NoShelvedFiles", id, <<>>) /\ UNCHANGED fs
       ELSE IF changedPaths # <<>>
       THEN /\ pc' = [Idle EXCEPT !.op = "commitChangelist", !.step = "stash",
                                  !.cl = id, !.stashed = TRUE,
                                  !.before = Before(id)]
            /\ last' = Step("commitChangelist", "stash", "none", id, <<>>)
            /\ UNCHANGED fs
       ELSE restoreFrom([Idle EXCEPT !.before = Before(id)],
                        "commitChangelist", id, 0, "add", fs)
    /\ UNCHANGED <<state, store, head, index, stash, captured>>
    /\ commitFrame
    /\ sessionFrame

\* commitWorkingChanges: git.add(filePaths) answered
commitWorkingChanges_AfterAdd ==
    /\ pc.op = "commitWorkingChanges" /\ pc.step = "add"
    /\ \E ok \in {b \in BOOLEAN : b => gitAddMatches(changedPaths)} :
        IF ok
        THEN /\ index' = gitAdd(changedPaths)
             /\ pc' = [pc EXCEPT !.step = "commit"]
             /\ last' = Step("commitWorkingChanges", "commit", "none", pc.cl, <<>>)
        ELSE Throw("commitWorkingChanges", "GitFailure", pc.cl, <<>>) /\ UNCHANGED index
    /\ UNCHANGED <<state, store, fs, head, stash, captured, ops>>
    /\ commitFrame
    /\ sessionFrame

\* commitWorkingChanges: git.commit(message) answered
commitWorkingChanges_AfterCommit ==
    /\ pc.op = "commitWorkingChanges" /\ pc.step = "commit"
    /\ \E ok \in BOOLEAN :
        IF ok
        THEN /\ head' = gitCommit
             /\ pc' = [pc EXCEPT !.step = "committed"]
             /\ last' = Step("commitWorkingChanges", "committed", "none", pc.cl, <<>>)
        ELSE Throw("commitWorkingChanges", "GitFailure", pc.cl, <<>>) /\ UNCHANGED head
    /\ UNCHANGED <<state, store, fs, index, stash, captured, ops>>
    /\ commitFrame
    /\ sessionFrame

\* commitWorkingChanges: refresh() answered; no changelist event is fired
commitWorkingChanges_Finish ==
    /\ pc.op = "commitWorkingChanges" /\ pc.step = "committed"
    /\ \E ok \in BOOLEAN :
        changedFiles' = IF ok THEN updateChangedFiles ELSE changedFiles
    /\ pc' = Idle
    /\ last' = Step("commitWorkingChanges", "done", "none", pc.cl, <<>>)
    /\ UNCHANGED <<state, store, fs, head, index, stash, config, fired, now,
                   nextId, ops, edits, captured>>
    /\ sessionFrame

\* git.stash(['push', ...]) answered, then the first restore of the loop
commitChangelist_AfterStash ==
    /\ pc.op = "commitChangelist" /\ pc.step = "stash"
    /\ \E ok \in BOOLEAN :
        IF ok
        THEN /\ stash' = IF hasLocalChanges THEN <<StashEntry>> \o stash ELSE stash
             /\ index' = IF hasLocalChanges THEN head ELSE index
             /\ restoreNext("commitChangelist", pc.cl, 0, "add",
                            IF hasLocalChanges THEN stashedTree ELSE fs)
        ELSE /\ Throw("commitChangelist", "GitFailure", pc.cl, <<>>)
             /\ UNCHANGED <<fs, index, stash>>
    /\ UNCHANGED <<state, store, head, captured, ops>>
    /\ commitFrame
    /\ sessionFrame

commitChangelist_Loop ==
    /\ pc.op = "commitChangelist" /\ pc.step = "loop"
    /\ restoreNext("commitChangelist", pc.cl, pc.i, "add", fs)
    /\ UNCHANGED <<state, store, head, index, stash, captured, ops>>
    /\ commitFrame
    /\ sessionFrame

\* git.add(filePaths) answered
commitChangelist_AfterAdd ==
    /\ pc.op = "commitChangelist" /\ pc.step = "add"
    /\ LET paths == filePaths(state.changelists[getChangelist(pc.cl)].shelvedFiles) IN
       \E ok \in {b \in BOOLEAN : b => gitAddMatches(paths)} :
        IF ok
        THEN /\ index' = gitAdd(paths)
             /\ pc' = [pc EXCEPT !.step = "commit"]
             /\ last' = Step("commitChangelist", "commit", "none", pc.cl, <<>>)
        ELSE Throw("commitChangelist", "GitFailure", pc.cl, <<>>) /\ UNCHANGED index
    /\ UNCHANGED <<state, store, fs, head, stash, captured, ops>>
    /\ commitFrame
    /\ sessionFrame

\* git.commit(message) answered: the shelf is cleared, then either the stash
\* is popped or the state is saved
commitChangelist_AfterCommit ==
    /\ pc.op = "commitChangelist" /\ pc.step = "commit"
    /\ \E ok \in BOOLEAN :
        IF ok
        THEN /\ head' = gitCommit
             /\ state' = [state EXCEPT
                    !.changelists[getChangelist(pc.cl)].shelvedFiles = <<>>]
             /\ captured' = Prune(captured, state')
             /\ IF pc.stashed
                THEN /\ pc' = [pc EXCEPT !.step = "pop"]
                     /\ last' = Step("commitChangelist", "pop", "none", pc.cl, <<>>)
                     /\ UNCHANGED store
                ELSE /\ store' = saveState(state')
                     /\ pc' = [pc EXCEPT !.step = "saved"]
                     /\ last' = Step("commitChangelist", "saved", "none", pc.cl, <<>>)
        ELSE /\ Throw("commitChangelist", "GitFailure", pc.cl, <<>>)
             /\ UNCHANGED <<state, store, head, captured>>
    /\ UNCHANGED <<fs, index, stash, ops>>
    /\ commitFrame
    /\ sessionFrame

\* git.stash(['pop']) answered, then saveState
commitChangelist_AfterPop ==
    /\ pc.op = "commitChangelist" /\ pc.step = "pop"
    /\ \E ok \in {b \in BOOLEAN : b => (stash # <<>> /\ stashApplies(Head(stash)))} :
        IF ok
        THEN /\ fs' = poppedTree(Head(stash))
             /\ index' = poppedIndex(Head(stash))
             /\ stash' = Tail(stash)
             /\ store' = saveState(state)
             /\ pc' = [pc EXCEPT !.step = "saved"]
             /\ last' = Step("commitChangelist", "saved", "none", pc.cl, <<>>)
        ELSE /\ Throw("commitChangelist", "GitFailure", pc.cl, <<>>)
             /\ UNCHANGED <<store, fs, index, stash>>
    /\ UNCHANGED <<state, head, captured, ops>>
    /\ commitFrame
    /\ sessionFrame

commitChangelist_Finish ==
    /\ pc.op = "commitChangelist" /\ pc.step = "saved"
    /\ RefreshFireAndReturn
    /\ UNCHANGED <<state, store, fs, head, index, stash, config, now, nextId,
                   ops, edits, captured>>
    /\ sessionFrame

-----------------------------------------------------------------------------
(* importChangelists *)

ImportItem(label, isArray, files) ==
    [label |-> label, isArray |-> isArray, shelvedFiles |-> files]

\* An item is imported for its label alone
importable_LabelOnly(item) == item.label # <<>>

\* `item.label && Array.isArray(item.shelvedFiles)`
importable(item) == item.label # <<>> /\ item.isArray

\* The items of the loop from the first one that is imported
RECURSIVE skipItems(_)
skipItems(items) ==
    IF items = <<>> THEN <<>>
    ELSE IF importable(Head(items)) THEN items
    ELSE skipItems(Tail(items))

\* History: the changelists and the active id when importChangelists was
\* called, and the items it was given
ImportCall(items) ==
    [changelists |-> state.changelists, active |-> state.activeChangelistId,
     items |-> items]

\* The loop of importChangelists at its next item: createChangelist(label)
\* up to the await of its saveState, or after the last item saveState()
importEnter(st, items, count) ==
    LET todo == skipItems(items)
        call == IF pc.op = "importChangelists" THEN pc.before ELSE ImportCall(items) IN
    IF todo # <<>>
    THEN /\ state' = [st EXCEPT !.changelists =
                        Append(@, Changelist(nextId, Head(todo).label, FALSE, FALSE))]
         /\ nextId' = nextId + 1
         /\ store' = saveState(state')
         /\ pc' = [Idle EXCEPT !.op = "importChangelists", !.step = "created",
                               !.cl = nextId, !.i = count, !.data = todo,
                               !.before = call]
         /\ last' = Step("importChangelists", "created", "none", nextId, <<>>)
    ELSE /\ state' = st
         /\ store' = saveState(st)
         /\ pc' = [Idle EXCEPT !.op = "importChangelists", !.step = "saved", !.i = count,
                               !.before = call]
         /\ last' = Step("importChangelists", "saved", "none", 0, <<>>)
         /\ UNCHANGED nextId

\* importChangelists(data)
importChangelists_Start(data) ==
    /\ CanStart
    /\ ops' = ops - 1
    /\ Len(state.changelists) + Len(data.changelists) <= MaxChangelists
    /\ IF ~data.isArray
       THEN /\ Throw("importChangelists", "InvalidImportData", 0, <<>>)
            /\ UNCHANGED <<state, store, nextId>>
       ELSE importEnter(state, data.changelists, 0)
    /\ UNCHANGED <<changedFiles, fs, head, index, stash, config, fired, now,
                   edits, captured>>
    /\ sessionFrame

\* createChangelist fired its event and returned the changelist: the item's
\* snapshots are attached, and the loop goes on
importChangelists_AfterCreate ==
    /\ pc.op = "importChangelists" /\ pc.step = "created"
    /\ fired' = fired + 1
    /\ importEnter([state EXCEPT !.changelists[getChangelist(pc.cl)].shelvedFiles =
                        Head(pc.data).shelvedFiles],
                   Tail(pc.data), pc.i + 1)
    /\ UNCHANGED <<changedFiles, fs, head, index, stash, config, now, ops,
                   edits, captured>>
    /\ sessionFrame

importChangelists_Fire ==
    /\ pc.op = "importChangelists" /\ pc.step = "saved"
    /\ fired' = fired + 1
    /\ pc' = Idle
    /\ last' = [Step("importChangelists", "done", "none", 0, <<>>) EXCEPT !.cl = pc.i]
    /\ UNCHANGED <<state, changedFiles, store, fs, head, index, stash, config,
                   now, nextId, ops, edits, captured>>
    /\ sessionFrame

\* Import files: what JSON.parse of a file chosen by the user can hold
ImportedF == ShelvedFile(PF, "modified", TextB, TextA, 0)
ImportedDF == ShelvedFile(PDF, "added", TextA, Undefined, 0)
ImportedDBF == ShelvedFile(PDBF, "added", TextB, Undefined, 0)

ImportDatas ==
    { [isArray |-> FALSE, changelists |-> <<>>],
      [isArray |-> TRUE, changelists |->
          <<ImportItem(<<>>, TRUE, <<ImportedF>>), ImportItem(LabelA, TRUE, <<ImportedF>>)>>],
      [isArray |-> TRUE, changelists |->
          <<ImportItem(LabelA, TRUE, <<ImportedDF, ImportedDBF>>)>>],
      [isArray |-> TRUE, changelists |-> <<ImportItem(LabelA, FALSE, <<>>)>>] }

\* cl => ({label: cl.label, shelvedFiles: cl.shelvedFiles})
exportItem(cl) == ImportItem(cl.label, TRUE, cl.shelvedFiles)

\* cl => !cl.isDefault && cl.shelvedFiles.length > 0
exported(cl) == ~cl.isDefault /\ Len(cl.shelvedFiles) > 0

\* exportChangelists().changelists; version and exportedAt, which
\* importChangelists does not read, are left out
exportChangelists(st) ==
    LET kept == SelectSeq(st.changelists, exported) IN
    [k \in DOMAIN kept |-> exportItem(kept[k])]

-----------------------------------------------------------------------------
(* The specification *)

ArgPaths == {PF, PDF, PDBF}
ShelfPaths == {PF}

Next ==
    \/ \E b \in UserContents \cup {NoFile} : UserEdit(PF, b)
    \/ Refresh
    \/ \E l \in Labels : createChangelist_Start(l)
    \/ createChangelist_Fire
    \/ \E id \in ClIds, l \in Labels : renameChangelist_Start(id, l)
    \/ renameChangelist_Fire
    \/ \E id \in ClIds : setActiveChangelist_Start(id)
    \/ setActiveChangelist_Fire
    \/ \E id \in ClIds : deleteChangelist_Start(id)
    \/ deleteChangelist_Loop
    \/ deleteChangelist_Finish
    \/ \E p \in ArgPaths, id \in ClIds : shelveFile_Start(p, id)
    \/ \E id \in ClIds : shelveFiles_Start(<<PF, PDBF>>, id)
    \/ shelve_AfterShow
    \/ shelve_Save
    \/ shelve_Fire
    \/ \E id \in ClIds, p \in ArgPaths : unshelveFile_Start(id, p)
    \/ unshelveFile_Finish
    \/ \E id \in ClIds : unshelveAll_Start(id)
    \/ unshelveAll_Loop
    \/ unshelveAll_Finish
    \/ \E id \in ClIds, p \in ArgPaths : applyAndStage_Start(id, p)
    \/ applyAndStage_AfterAdd
    \/ applyAndStage_Finish
    \/ \E id \in ClIds : applyAllAndStage_Start(id)
    \/ applyAllAndStage_Loop
    \/ applyAllAndStage_AfterAdd
    \/ applyAllAndStage_Finish
    \/ \E id \in ClIds, p \in ArgPaths : deleteShelvedFile_Start(id, p)
    \/ deleteShelvedFile_Fire
    \/ \E id \in ClIds : commitChangelist_Start(id)
    \/ commitWorkingChanges_AfterAdd
    \/ commitWorkingChanges_AfterCommit
    \/ commitWorkingChanges_Finish
    \/ commitChangelist_AfterStash
    \/ commitChangelist_Loop
    \/ commitChangelist_AfterAdd
    \/ commitChangelist_AfterCommit
    \/ commitChangelist_AfterPop
    \/ commitChangelist_Finish
    \/ \E d \in ImportDatas : importChangelists_Start(d)
    \/ importChangelists_AfterCreate
    \/ importChangelists_Fire

\* The single-file methods of the shelf on the tracked file f, from a session
\* with two empty changelists
NextShelf ==
    \/ \E b \in UserContents \cup {NoFile} : UserEdit(PF, b)
    \/ Refresh
    \/ \E p \in ShelfPaths, id \in ClIds : shelveFile_Start(p, id)
    \/ shelve_AfterShow
    \/ shelve_Save
    \/ shelve_Fire
    \/ \E id \in ClIds, p \in ShelfPaths : unshelveFile_Start(id, p)
    \/ unshelveFile_Finish
    \/ \E id \in ClIds, p \in ShelfPaths : applyAndStage_Start(id, p)
    \/ applyAndStage_AfterAdd
    \/ applyAndStage_Finish
    \/ \E id \in ClIds, p \in ShelfPaths : deleteShelvedFile_Start(id, p)
    \/ deleteShelvedFile_Fire

InitShelf == InitWith({SessionRecord}, MaxShelfOps, MaxShelfEdits)

Spec == Init /\ [][Next]_vars

SpecShelf == InitShelf /\ [][NextShelf]_vars

-----------------------------------------------------------------------------
(* The snapshot mirror: sessions of shelveFile and deleteShelvedFile only *)

InitMirror == InitWith({SessionRecord, ShelvedRecord}, MaxOps, MaxEdits)

NextMirror ==
    \/ \E b \in UserContents \cup {NoFile} : UserEdit(PF, b)
    \/ Refresh
    \/ \E p \in WorkPaths, id \in ClIds : shelveFile_Start(p, id)
    \/ shelve_AfterShow
    \/ shelve_Save
    \/ shelve_Fire
    \/ \E id \in ClIds, p \in WorkPaths : deleteShelvedFile_Start(id, p)
    \/ deleteShelvedFile_Fire

SpecMirror == InitMirror /\ [][NextMirror]_vars

-----------------------------------------------------------------------------
(* Overlapping calls: shelveFile called while its own git.show, or another
   method, is awaited.  Nothing in the engine serializes the methods; each
   runs from one await to the next without interruption. *)

\* A shelveFile call: its arguments, what it read before its first await (the
\* status, the content, the changelist object with its label), and where it is
ShelveCall(cl, label, path, status, content, bytes, phase) ==
    [cl |-> cl, label |-> label, path |-> path, status |-> status,
     content |-> content, bytes |-> bytes, phase |-> phase]

\* shelveFile from findIndex to its return, on the changelist object the call
\* holds: if deleteChangelist has filtered that object out of
\* state.changelists the snapshot goes to the object alone.  The awaits of
\* saveSnapshotToFile and saveState are passed without another method running.
shelveFinish(call, headContent) ==
    LET i == getChangelist(call.cl) IN
    \E t \in now..Min(now + 1, MaxClock), written \in BOOLEAN :
        LET sf == ShelvedFile(call.path, call.status, call.content, headContent, t) IN
        /\ written \/ (config /\ call.content # Undefined /\ call.content # <<>>)
        /\ now' = t
        /\ state' = IF i = 0 THEN state
                    ELSE [state EXCEPT !.changelists[i].shelvedFiles = putSnapshot(@, sf)]
        /\ fs' = saveSnapshotToFile(fs, sf, [label |-> call.label], written)
        /\ store' = saveState(state')
        /\ fired' = fired + 1
        /\ last' = Step("shelveFile", "done", "none", call.cl, call.path)

overlapFrame == UNCHANGED <<changedFiles, head, index, stash, config, pc, nextId,
                            ops, edits, captured, workspaceFolders, repositories,
                            services>>

\* shelveFile(relativePath, target) called at any moment: the checks, the
\* read of the file, then the await of git.show, or for an untracked file
\* the rest of the method
shelveFile_Call(relativePath, target) ==
    /\ Len(calls) < MaxCalls
    /\ LET np == normalizePath(relativePath)
           status == IF np \in WorkPaths THEN changedFiles[np] ELSE "none"
           i == getChangelist(target)
           quiet == UNCHANGED <<state, store, fs, fired, now>>
           failed == ShelveCall(target, <<>>, np, status, Undefined, NoFile, "failed")
       IN  IF status = "none"
           THEN /\ last' = Step("shelveFile", "failed", "FileNotInChanges", target, np)
                /\ calls' = Append(calls, failed) /\ quiet
           ELSE IF i = 0
           THEN /\ last' = Step("shelveFile", "failed", "ChangelistNotFound", target, np)
                /\ calls' = Append(calls, failed) /\ quiet
           ELSE IF shelveRefused(i)
           THEN /\ last' = Step("shelveFile", "failed", "CannotSaveToDefault", target, np)
                /\ calls' = Append(calls, failed) /\ quiet
           ELSE LET content == IF status # "deleted" /\ fs[Loc(np)] # NoFile
                               THEN utf8Decode(fs[Loc(np)]) ELSE Undefined
                    call == ShelveCall(target, state.changelists[i].label, np, status,
                                       content, fs[Loc(np)], "show")
                IN  IF status # "untracked"
                    THEN /\ calls' = Append(calls, call)
                         /\ last' = Step("shelveFile", "show", "none", target, np)
                         /\ quiet
                    ELSE /\ calls' = Append(calls, [call EXCEPT !.phase = "returned"])
                         /\ shelveFinish(call, Undefined)
    /\ overlapFrame

\* git.show answered the k-th call: the rest of its shelveFile
shelveFile_Resume(k) ==
    /\ calls[k].phase = "show"
    /\ \E headContent \in {Undefined} \cup
            (IF head[calls[k].path] # NoFile THEN {utf8Decode(head[calls[k].path])} ELSE {}) :
        shelveFinish(calls[k], headContent)
    /\ calls' = [calls EXCEPT ![k].phase = "returned"]
    /\ overlapFrame

InitOverlap == InitWith({ShelvedRecord}, MaxOverlapOps, MaxEdits)

\* The changelists a snapshot can be saved to
ShelfIds == {state.changelists[i].id :
                i \in {k \in DOMAIN state.changelists : ~state.changelists[k].isDefault}}

NextOverlap ==
    \/ \E b \in UserContents \cup {NoFile} : UserEdit(PF, b)
    \/ Refresh
    \/ \E p \in WorkPaths, id \in ShelfIds : shelveFile_Call(p, id)
    \/ \E k \in DOMAIN calls : shelveFile_Resume(k)
    \/ \E id \in ShelfIds : deleteChangelist_Start(id)
    \/ deleteChangelist_Loop
    \/ deleteChangelist_Finish
    \/ \E id \in ShelfIds : commitChangelist_Start(id)
    \/ commitChangelist_AfterStash
    \/ commitChangelist_Loop
    \/ commitChangelist_AfterAdd
    \/ commitChangelist_AfterCommit
    \/ commitChangelist_AfterPop
    \/ commitChangelist_Finish

SpecOverlap == InitOverlap /\ [][NextOverlap]_vars

-----------------------------------------------------------------------------
(* Importing what the engine of another repository exported *)

\* A snapshot of f as the engine of the other repository stored and exported it
ForeignF == [ShelvedFile(PF, "modified", TextB, TextA, 0) EXCEPT !.repoPath = OtherRepoPath]

ForeignDatas ==
    {[isArray |-> TRUE, changelists |-> <<ImportItem(LabelA, TRUE, <<ForeignF>>)>>]}

InitIsolation == InitWith({NoRecord, SessionRecord}, MaxOps, MaxEdits)

NextIsolation ==
    \/ \E b \in UserContents \cup {NoFile} : UserEdit(PF, b)
    \/ Refresh
    \/ \E d \in ForeignDatas : importChangelists_Start(d)
    \/ importChangelists_AfterCreate
    \/ importChangelists_Fire
    \/ \E id \in ClIds, p \in ShelfPaths : unshelveFile_Start(id, p)
    \/ unshelveFile_Finish

SpecIsolation == InitIsolation /\ [][NextIsolation]_vars

-----------------------------------------------------------------------------
(* Export and import: sessions that import files, among them what
   exportChangelists returns of the current state *)

\* Stored records of an earlier session: the default changelist and one more,
\* empty or holding snapshots
ExportRecords ==
    {NoRecord} \cup
    {[SessionRecord EXCEPT
        !.activeChangelistId = active,
        !.changelists = <<Changelist(1, DefaultLabel, TRUE, active = 1),
                          [Changelist(2, LabelUp, FALSE, active = 2)
                                EXCEPT !.shelvedFiles = files]>>] :
        active \in {1, 2},
        files \in {<<>>, <<ImportedF>>, <<ImportedDF, ImportedDBF>>}}

InitImport == InitWith(ExportRecords, MaxOps, MaxEdits)

NextImport ==
    \/ \E l \in Labels : createChangelist_Start(l)
    \/ createChangelist_Fire
    \/ \E id \in ClIds : setActiveChangelist_Start(id)
    \/ setActiveChangelist_Fire
    \/ \E d \in ImportDatas \cup {[isArray |-> TRUE, changelists |-> exportChangelists(state)]} :
            importChangelists_Start(d)
    \/ importChangelists_AfterCreate
    \/ importChangelists_Fire

SpecImport == InitImport /\ [][NextImport]_vars

-----------------------------------------------------------------------------
(* Legacy snapshots: sessions on a record that an old version wrote, whose
   snapshots hold a patch and no content *)

\* The patch of an edit of f from "a" to "b"
PatchAB == <<TextA, TextB>>

\* A snapshot as the versions before full-content capture stored it
LegacyF == [ShelvedFile(PF, "modified", Undefined, Undefined, 0) EXCEPT !.patch = PatchAB]

\* The first changelist holding a legacy snapshot of f and a snapshot of d/f, in
\* either order
LegacyShelves ==
    {[SessionRecord EXCEPT !.changelists[2].shelvedFiles = files] :
        files \in {<<LegacyF, ShelvedFile(PDF, "modified", TextB, TextA, 0)>>,
                   <<ShelvedFile(PDF, "modified", TextB, TextA, 0), LegacyF>>}}

InitLegacy == InitWith(LegacyShelves, MaxOps, MaxEdits)

NextLegacy ==
    \/ \E b \in UserContents \cup {NoFile} : UserEdit(PF, b)
    \/ Refresh
    \/ \E id \in ClIds : unshelveAll_Start(id)
    \/ unshelveAll_Loop
    \/ unshelveAll_Finish
    \/ \E id \in ClIds : applyAllAndStage_Start(id)
    \/ applyAllAndStage_Loop
    \/ applyAllAndStage_AfterAdd
    \/ applyAllAndStage_Finish

SpecLegacy == InitLegacy /\ [][NextLegacy]_vars

-----------------------------------------------------------------------------
(* Loading: sessions that construct the service on what the store holds *)

\* A record as a version of the extension before repoPath existed wrote it
WithoutRepoPath(record, version) ==
    [version |-> version,
     activeChangelistId |-> record.activeChangelistId,
     changelists |-> [i \in DOMAIN record.changelists |->
        [record.changelists[i] EXCEPT
            !.repoPath = NoPath,
            !.shelvedFiles = [j \in DOMAIN @ |-> [@[j] EXCEPT !.repoPath = NoPath]]]]]

\* What the single-repository versions left under the legacy key
LegacyRecord ==
    WithoutRepoPath(
        [version |-> 1, activeChangelistId |-> 1,
         changelists |-> <<Changelist(1, DefaultLabel, TRUE, TRUE),
                           [Changelist(2, LabelUp, FALSE, FALSE) EXCEPT !.shelvedFiles =
                                <<ShelvedFile(PDF, "untracked", TextA, Undefined, 0)>>]>>],
        1)

\* What the store may hold under the key of this repository ...
StoredRecords ==
    {NoRecord, SessionRecord, ShelvedRecord,
     [ShelvedRecord EXCEPT !.version = STATE_VERSION - 1],
     WithoutRepoPath(ShelvedRecord, STATE_VERSION - 1),
     WithoutRepoPath(SessionRecord, STATE_VERSION - 2),
     [ShelvedRecord EXCEPT !.version = STATE_VERSION + 1]}

\* ... and under the legacy key
LegacyRecords == {NoRecord, LegacyRecord, WithoutRepoPath(SessionRecord, 1)}

InitLoad ==
    /\ \E stored \in StoredRecords, legacy \in LegacyRecords :
        store = StoreOf(stored, legacy)
    /\ state = NoRecord
    /\ nextId = MaxChangelists + 1
    /\ config \in BOOLEAN
    /\ fs = [l \in FsLocs |->
                IF l = Loc(PF) THEN TextB
                ELSE IF l \in {Loc(PDF), OtherLoc} THEN TextA
                ELSE NoFile]
    /\ captured = {}
    /\ changedFiles = [p \in WorkPaths |-> "none"]
    /\ head = [p \in WorkPaths |-> IF p = PF THEN TextA ELSE NoFile]
    /\ index = head
    /\ stash = <<>>
    /\ pc = Idle
    /\ last = Step("init", "", "none", 0, <<>>)
    /\ fired = 0
    /\ now = 0
    /\ ops = MaxLoads
    /\ edits = 0
    /\ workspaceFolders = {RepoPath}
    /\ repositories = RepoMap({GitRepository(RepoPath, NoPath)})
    /\ calls = <<>>
    /\ services = NoServices

\* new ChangelistService(context, repository): this.state = this.loadState().
\* `again` marks a load that directly follows a load that wrote the store.
\* The snapshots directory and its .gitignore are not among the locations
\* of the model.
constructor(workspaceRoot) ==
    /\ CanStart
    /\ ops' = ops - 1
    /\ LET branch == loadBranch(store, workspaceRoot) IN
        /\ state' = loadState(store, workspaceRoot, nextId)
        /\ nextId' = IF branch = "default" THEN nextId + 1 ELSE nextId
        /\ store' = IF loadSaves(branch) THEN saveState(state') ELSE store
        /\ last' = [Step("loadState", IF loadSaves(branch) THEN "saved" ELSE "returned",
                         "none", 0, workspaceRoot)
                        EXCEPT !.again = (last.op = "loadState" /\ last.step = "saved")]
    /\ changedFiles' = [p \in WorkPaths |-> "none"]
    /\ UNCHANGED <<fs, head, index, stash, config, pc, fired, now, edits, captured>>
    /\ sessionFrame

NextLoad == \E workspaceRoot \in WorkspaceRoots : constructor(workspaceRoot)

SpecLoad == InitLoad /\ [][NextLoad]_vars

-----------------------------------------------------------------------------
(* getFileVersions *)

\* A comparator that puts the oldest first
newestFirst_Oldest(a, b) == a.timestamp - b.timestamp

\* (a, b) => b.timestamp - a.timestamp
newestFirst(a, b) == b.timestamp - a.timestamp

\* Array.prototype.sort, which is stable: x goes before the first element
\* that the comparator puts after it
insertVersion(sorted, x) ==
    LET later == {k \in DOMAIN sorted : newestFirst(x, sorted[k]) < 0}
        at == IF later = {} THEN Len(sorted) + 1
              ELSE CHOOSE k \in later : \A m \in later : k <= m
    IN  SubSeq(sorted, 1, at - 1) \o <<x>> \o SubSeq(sorted, at, Len(sorted))

RECURSIVE sortVersions(_, _)
sortVersions(sorted, versions) ==
    IF versions = <<>> THEN sorted
    ELSE sortVersions(insertVersion(sorted, Head(versions)), Tail(versions))

\* The inner loop of getFileVersions over the snapshots of one changelist
RECURSIVE versionsOf(_, _, _)
versionsOf(changelist, files, normalizedPath) ==
    IF files = <<>> THEN <<>>
    ELSE (IF normalizePath(Head(files).relativePath) = normalizedPath
          THEN <<[changelist |-> changelist, shelvedFile |-> Head(files),
                  label |-> changelist.label, timestamp |-> Head(files).shelvedAt]>>
          ELSE <<>>)
         \o versionsOf(changelist, Tail(files), normalizedPath)

\* The outer loop, over the changelists
RECURSIVE versionsIn(_, _)
versionsIn(changelists, normalizedPath) ==
    IF changelists = <<>> THEN <<>>
    ELSE versionsOf(Head(changelists), Head(changelists).shelvedFiles, normalizedPath)
         \o versionsIn(Tail(changelists), normalizedPath)

\* getFileVersions(relativePath)
getFileVersions(relativePath) ==
    sortVersions(<<>>, versionsIn(state.changelists, normalizePath(relativePath)))

\* The method is called; it is synchronous
getFileVersions_Call(relativePath) ==
    /\ CanStart
    /\ ops' = ops - 1
    /\ last' = [Step("getFileVersions", "done", "none", 0, relativePath)
                    EXCEPT !.versions = getFileVersions(relativePath)]
    /\ UNCHANGED <<state, changedFiles, store, fs, head, index, stash, config,
                   pc, fired, now, nextId, edits, captured>>
    /\ sessionFrame

\* The snapshots shelveFile can have taken of the paths, at the times of the
\* clock
StampedSnapshots ==
    {ShelvedFile(p, "modified", TextB, TextA, t) : p \in ArgPaths, t \in 0..MaxStamp}

\* The shelves a changelist can hold: at most two snapshots, of different
\* normalized paths
Shelves ==
    {<<>>} \cup {<<a>> : a \in StampedSnapshots}
    \cup {ab \in StampedSnapshots \X StampedSnapshots :
            normalizePath(ab[1].relativePath) # normalizePath(ab[2].relativePath)}

\* A session whose two changelists hold such shelves
InitVersions ==
    /\ \E sa \in Shelves, sb \in Shelves :
        state = [SessionRecord EXCEPT !.changelists[2].shelvedFiles = sa,
                                      !.changelists[3].shelvedFiles = sb]
    /\ store = StoreOf(state, NoRecord)
    /\ nextId = Len(state.changelists) + 1
    /\ config = FALSE
    /\ fs = [l \in FsLocs |->
                IF l = Loc(PF) THEN TextB
                ELSE IF l \in {Loc(PDF), OtherLoc} THEN TextA
                ELSE NoFile]
    /\ captured = {}
    /\ changedFiles = [p \in WorkPaths |-> "none"]
    /\ head = [p \in WorkPaths |-> IF p = PF THEN TextA ELSE NoFile]
    /\ index = head
    /\ stash = <<>>
    /\ pc = Idle
    /\ last = Step("init", "", "none", 0, <<>>)
    /\ fired = 0
    /\ now = 0
    /\ ops = MaxOps
    /\ edits = 0
    /\ workspaceFolders = {RepoPath}
    /\ repositories = RepoMap({GitRepository(RepoPath, NoPath)})
    /\ calls = <<>>
    /\ services = NoServices

NextVersions == \E relativePath \in ArgPaths : getFileVersions_Call(relativePath)

SpecVersions == InitVersions /\ [][NextVersions]_vars

-----------------------------------------------------------------------------
(* The repositories of the workspace and their engines *)

\* The directory `name` of the directory `parent`
Under(parent, name) == parent \o <<"/", name>>

RootA == RepoPath               \* workspace folder  repoA
RootB == <<"repoA", "2">>       \* workspace folder  repoA2
RootC == <<"lib">>              \* workspace folder  lib
RootD == <<"mono">>             \* workspace folder  mono, not a repository
SubA == Under(RootA, "sub")
DepA == Under(Under(RootA, "node_modules"), "dep")
PkgD == Under(RootD, "pkg")
Lib1 == Under(RootC, "a1")
Lib2 == Under(Lib1, "a2")
Lib3 == Under(Lib2, "a3")
Lib4 == Under(Lib3, "a4")
Lib5 == Under(Lib4, "a5")
Near == Under(Lib4, "near")     \* five levels below lib
Far == Under(Lib5, "far")       \* six levels below lib
Roots == {RootA, RootB, RootC, RootD}

\* The directories of the disk ...
Dirs == {RootA, SubA, Under(RootA, "node_modules"), DepA, RootB, RootC, Lib1,
         Lib2, Lib3, Lib4, Lib5, Near, Far, RootD, PkgD}

\* ... and those that hold a .git entry: hasGitDir
GitDirs == {RootA, SubA, DepA, RootB, RootC, Near, Far, PkgD}

\* The names findNestedRepos skips
SkippedNames == {".git", "node_modules", ".smartchangelists", "vendor", "dist", "build"}

\* `if (depth < 5)` of findNestedRepos
MaxDepth == 5

\* String.prototype.startsWith
startsWith(s, prefix) ==
    Len(prefix) <= Len(s) /\ SubSeq(s, 1, Len(prefix)) = prefix

\* The directory is the folder or lies below it
isInside(dir, folder) == dir = folder \/ startsWith(dir, folder \o <<"/">>)

\* fs.readdirSync(searchPath): the directories in it
entriesOf(searchPath) ==
    {d \in Dirs : Len(d) = Len(searchPath) + 2 /\ startsWith(d, searchPath \o <<"/">>)}

\* fullPath.split(path.sep).length - parentRepoPath.split(path.sep).length
depthBelow(fullPath, parentRepoPath) == (Len(fullPath) - Len(parentRepoPath)) \div 2

\* findNestedRepos(searchPath, parentRepoPath, repos): what it pushes
RECURSIVE findNestedRepos(_, _)
findNestedRepos(searchPath, parentRepoPath) ==
    UNION {IF fullPath[Len(fullPath)] \in SkippedNames THEN {}
           ELSE IF fullPath \in GitDirs
           THEN {GitRepository(fullPath, parentRepoPath)}
                    \cup findNestedRepos(fullPath, fullPath)
           ELSE IF depthBelow(fullPath, parentRepoPath) < MaxDepth
           THEN findNestedRepos(fullPath, parentRepoPath)
           ELSE {} : fullPath \in entriesOf(searchPath)}

\* findGitRepositories(rootPath): the folder, if it is a repository, and the
\* repositories nested in it
findGitRepositories(rootPath) ==
    IF rootPath \in GitDirs
    THEN {GitRepository(rootPath, NoPath)} \cup findNestedRepos(rootPath, rootPath)
    ELSE {}

\* scanRepositories(): the map it fills
scanRepositories(folders) == RepoMap(UNION {findGitRepositories(f) : f \in folders})

\* getRepoStateKey(repoPath)
getRepoStateKey(repoPath) ==
    IF repoPath = RootA THEN StateKey
    ELSE IF repoPath = SubA THEN "smartChangelists.state.sub"
    ELSE IF repoPath = DepA THEN "smartChangelists.state.dep"
    ELSE IF repoPath = RootB THEN "smartChangelists.state.repoA2"
    ELSE IF repoPath = Near THEN "smartChangelists.state.near"
    ELSE IF repoPath = Far THEN "smartChangelists.state.far"
    ELSE IF repoPath = PkgD THEN "smartChangelists.state.pkg"
    ELSE "smartChangelists.state.lib"

\* new ChangelistService(context, repo): loadState on a store that holds a
\* record of the current version for the repository, or none
newService(st, repoPath, id) ==
    LET stored == st[getRepoStateKey(repoPath)] IN
    [instance |-> id,
     state |-> IF stored # NoRecord /\ stored.version = STATE_VERSION THEN stored
               ELSE [defaultState(id) EXCEPT !.changelists[1].repoPath = repoPath]]

\* The store after the engines of these repositories were constructed
storeAfter(st, created, id) ==
    [k \in DOMAIN st |->
        IF \E r \in created : getRepoStateKey(r) = k
        THEN newService(st, CHOOSE r \in created : getRepoStateKey(r) = k, id).state
        ELSE st[k]]

\* A reconciliation that keeps no engine
keptServices_None(currentRepos) == {}

\* The engines syncServicesWithRepos does not dispose
keptServices(currentRepos) == DOMAIN services \cap currentRepos

\* syncServicesWithRepos(context) on the repositories now registered: the
\* engines of repositories that are gone are disposed, every new repository
\* gets an engine
syncServicesWithRepos(currentRepos) ==
    LET kept == keptServices(currentRepos)
        created == currentRepos \ kept IN
    /\ services' = [r \in kept \cup created |->
                        IF r \in kept THEN services[r]
                        ELSE newService(store, r, nextId)]
    /\ store' = storeAfter(store, created, nextId)
    /\ nextId' = nextId + 1

\* The repositories the handler drops for a removed folder
droppedFor(removed) ==
    {r \in DOMAIN repositories : \E f \in removed : startsWith(r, f)}

\* The map after the handler deleted and set its entries
changedRepositories(added, removed) ==
    LET stay == DOMAIN repositories \ droppedFor(removed)
        found == scanRepositories(added) IN
    [r \in stay \cup DOMAIN found |-> IF r \in DOMAIN found THEN found[r] ELSE repositories[r]]

\* vscode.workspace.onDidChangeWorkspaceFolders: the handler of the
\* RepositoryManager, whose event runs syncServicesWithRepos
onDidChangeWorkspaceFolders(added, removed) ==
    /\ CanStart
    /\ added \cup removed # {}
    /\ ops' = ops - 1
    /\ workspaceFolders' = (workspaceFolders \ removed) \cup added
    /\ repositories' = changedRepositories(added, removed)
    /\ syncServicesWithRepos(DOMAIN repositories')
    /\ last' = Step("onDidChangeWorkspaceFolders", "synced", "none", 0, <<>>)
    /\ UNCHANGED calls
    /\ UNCHANGED <<state, changedFiles, fs, head, index, stash, config, pc, fired,
                   now, edits, captured>>

\* gitWatcher.onDidCreate / onDidDelete: a .git entry appeared or went
\* somewhere below the workspace (one in a skipped directory changes nothing
\* that is discovered); the manager scans again, then the engines are
\* reconciled
gitWatcher_Rescan ==
    /\ CanStart
    /\ ops' = ops - 1
    /\ repositories' = scanRepositories(workspaceFolders)
    /\ syncServicesWithRepos(DOMAIN repositories')
    /\ last' = Step("gitWatcher", "synced", "none", 0, <<>>)
    /\ UNCHANGED calls
    /\ UNCHANGED <<state, changedFiles, fs, head, index, stash, config, pc, fired,
                   now, edits, captured, workspaceFolders>>

\* createChangelist(label) of the engine of one repository, as a whole
createChangelist_On(repoPath, label) ==
    /\ CanStart
    /\ repoPath \in DOMAIN services
    /\ Len(services[repoPath].state.changelists) < MaxChangelists
    /\ ops' = ops - 1
    /\ services' = [services EXCEPT ![repoPath].state.changelists =
            Append(@, [Changelist(nextId, label, FALSE, FALSE) EXCEPT !.repoPath = repoPath])]
    /\ store' = [store EXCEPT ![getRepoStateKey(repoPath)] = services'[repoPath].state]
    /\ nextId' = nextId + 1
    /\ fired' = fired + 1
    /\ last' = Step("createChangelist", "done", "none", nextId, repoPath)
    /\ UNCHANGED calls
    /\ UNCHANGED <<state, changedFiles, fs, head, index, stash, config, pc, now,
                   edits, captured, workspaceFolders, repositories>>

\* The extension was activated on some workspace folders: the repositories
\* were scanned and each got its engine, none had a stored record
InitRoots ==
    /\ workspaceFolders \in SUBSET Roots
    /\ repositories = scanRepositories(workspaceFolders)
    /\ calls = <<>>
    /\ services = [r \in DOMAIN repositories |->
                    newService([k \in {getRepoStateKey(d) : d \in GitDirs} |-> NoRecord], r, 1)]
    /\ store = [k \in {getRepoStateKey(d) : d \in GitDirs} |->
                    IF \E r \in DOMAIN repositories : getRepoStateKey(r) = k
                    THEN services[CHOOSE r \in DOMAIN repositories : getRepoStateKey(r) = k].state
                    ELSE NoRecord]
    /\ state = NoRecord
    /\ nextId = 2
    /\ config = FALSE
    /\ fs = [l \in FsLocs |->
                IF l = Loc(PF) THEN TextB
                ELSE IF l \in {Loc(PDF), OtherLoc} THEN TextA
                ELSE NoFile]
    /\ captured = {}
    /\ changedFiles = [p \in WorkPaths |-> "none"]
    /\ head = [p \in WorkPaths |-> IF p = PF THEN TextA ELSE NoFile]
    /\ index = head
    /\ stash = <<>>
    /\ pc = Idle
    /\ last = Step("init", "", "none", 0, <<>>)
    /\ fired = 0
    /\ now = 0
    /\ ops = MaxRootOps
    /\ edits = 0

NextRoots ==
    \/ \E added \in SUBSET (Roots \ workspaceFolders), removed \in SUBSET workspaceFolders :
        onDidChangeWorkspaceFolders(added, removed)
    \/ gitWatcher_Rescan
    \/ \E repoPath \in GitDirs, label \in Labels : createChangelist_On(repoPath, label)

SpecRoots == InitRoots /\ [][NextRoots]_vars

-----------------------------------------------------------------------------
(* Properties *)

\* The working tree proper: the locations outside the mirror directory
TreeLocs == {l \in FsLocs : ~InMirrorDir(l)}

\* The snapshots (indices) changelist `id` holds of the normalized path np
SnapshotsOf(id, np) ==
    LET i == getChangelist(id) IN
    IF i = 0 THEN {}
    ELSE {j \in DOMAIN state.changelists[i].shelvedFiles :
            normalizePath(state.changelists[i].shelvedFiles[j].relativePath) = np}

\* The first snapshot changelist `id` holds of np
SnapshotOf(id, np) ==
    LET i == getChangelist(id) IN
    state.changelists[i].shelvedFiles[findIndex(state.changelists[i].shelvedFiles, np)]

\* The content a snapshot of this status holds of a file with these bytes
ContentOf(status, bytes) ==
    IF status # "deleted" /\ bytes # NoFile THEN utf8Decode(bytes) ELSE Undefined

RestoreOps == {"unshelveFile", "unshelveAll", "applyAndStage", "applyAllAndStage"}

\* C1: every step of shelveFile, whether the method succeeds or fails, leaves
\* every file of the working tree outside the mirror directory as it was.
C1_ShelveLeavesTree ==
    [][last'.op = "shelveFile" => \A l \in TreeLocs : fs'[l] = fs[l]]_vars

\* C2: when unshelveFile has restored the snapshot of (c, p), the file p holds
\* exactly the bytes it held when the snapshot was taken, and p is absent if
\* the snapshot's status is 'deleted'.
C2_RoundTrip ==
    (last.op = "unshelveFile" /\ last.step = "restored") =>
        \A c \in captured :
            (c.cl = last.cl /\ c.path = last.path) =>
                /\ fs[Loc(c.path)] = c.bytes
                /\ SnapshotOf(c.cl, c.path).status = "deleted" => fs[Loc(c.path)] = NoFile

\* C3: in every state reached from the initial state exactly one changelist
\* has isDefault = true.
C3_ExactlyOneDefault ==
    Cardinality({i \in DOMAIN state.changelists : state.changelists[i].isDefault}) = 1

\* deleteChangelist was asked to delete the default changelist, next to others
C3_Witness ==
    /\ last.op = "deleteChangelist" /\ last.err = "CannotDeleteDefault"
    /\ Len(state.changelists) > 1

\* C4: in every reachable state, those between the steps of a method in
\* progress included, at most one changelist has isActive = true.
C4_AtMostOneActive ==
    Cardinality({i \in DOMAIN state.changelists : state.changelists[i].isActive}) <= 1

\* setActiveChangelist is suspended at saveState, having moved the flag from
\* one changelist to another that is not the default one
C4_Witness ==
    /\ pc.op = "setActiveChangelist" /\ pc.step = "saved"
    /\ getChangelist(pc.cl) # 0
    /\ state.changelists[getChangelist(pc.cl)].isActive
    /\ ~state.changelists[getChangelist(pc.cl)].isDefault
    /\ state.activeChangelistId = pc.cl
    /\ pc.cl = 3

\* C5: no changelist holds two snapshots of the same normalized relative path.
C5_OneSnapshotPerPath ==
    \A i \in DOMAIN state.changelists :
        \A j, k \in DOMAIN state.changelists[i].shelvedFiles :
            normalizePath(state.changelists[i].shelvedFiles[j].relativePath)
                = normalizePath(state.changelists[i].shelvedFiles[k].relativePath)
            => j = k

C7_IdempotentRestore ==
    [][(last'.op = "unshelveFile" /\ last'.step = "restored") =>
        /\ state' = state
        /\ SnapshotsOf(last'.cl, last'.path) # {}
        /\ last'.again => fs' = fs]_vars

\* The second of two unshelveFile of one snapshot has restored an existing file
C7_Witness ==
    /\ last.op = "unshelveFile" /\ last.step = "restored" /\ last.again
    /\ fs[Loc(last.path)] # NoFile
    /\ SnapshotsOf(last.cl, last.path) # {}

\* C8: no step of unshelveFile, unshelveAll, applyAndStage or applyAllAndStage,
\* of a call that succeeds or of one that fails, changes the in-memory state
\* (the changelists, their snapshots, the active flags) or the persisted record.
C8_RestoreLeavesRecord ==
    [][last'.op \in RestoreOps => state' = state /\ store' = store]_vars

\* unshelveAll completed on a changelist that holds a snapshot
C8_Witness ==
    /\ last.op = "unshelveAll" /\ last.step = "done"
    /\ getChangelist(last.cl) # 0
    /\ state.changelists[getChangelist(last.cl)].shelvedFiles # <<>>

\* C9: a step of shelveFile, unshelveFile, applyAndStage or deleteShelvedFile
\* on one changelist changes no other changelist; and once applyAndStage(c, p)
\* has staged, the file p holds the content of c's snapshot and that content
\* is staged.
C9_IndependentSnapshots ==
    [][last'.op \in {"shelveFile", "unshelveFile", "applyAndStage", "deleteShelvedFile"} =>
        /\ Len(state'.changelists) = Len(state.changelists)
        /\ \A i \in DOMAIN state.changelists :
            state.changelists[i].id # last'.cl => state'.changelists[i] = state.changelists[i]
        /\ (last'.op = "applyAndStage" /\ last'.step = "staged") =>
            LET sf == SnapshotOf(last'.cl, last'.path) IN
            /\ index'[last'.path] = fs'[Loc(last'.path)]
            /\ sf.status # "deleted" /\ sf.originalContent # Undefined =>
                fs'[Loc(last'.path)] = utf8Encode(sf.originalContent)]_vars

\* applyAndStage(c1, p) has staged while c1 and c2 hold snapshots of p of
\* different contents: the file and the index hold c1's content
C9_Witness ==
    /\ last.op = "applyAndStage" /\ last.step = "staged"
    /\ \E i \in DOMAIN state.changelists :
        /\ state.changelists[i].id # last.cl
        /\ SnapshotsOf(state.changelists[i].id, last.path) # {}
        /\ SnapshotOf(state.changelists[i].id, last.path).originalContent
                # SnapshotOf(last.cl, last.path).originalContent
        /\ SnapshotOf(last.cl, last.path).originalContent # Undefined
        /\ fs[Loc(last.path)] = utf8Encode(SnapshotOf(last.cl, last.path).originalContent)
        /\ index[last.path] = fs[Loc(last.path)]
        /\ fs[Loc(last.path)]
                # utf8Encode(SnapshotOf(state.changelists[i].id, last.path).originalContent)

\* C10: in every reachable state the default changelist holds no snapshot.
C10_DefaultHoldsNoSnapshot ==
    \A i \in DOMAIN state.changelists :
        state.changelists[i].isDefault => state.changelists[i].shelvedFiles = <<>>

\* shelveFile or shelveFiles was asked to shelve into the default changelist
C10_Witness ==
    /\ last.op \in {"shelveFile", "shelveFiles"}
    /\ last.err = "CannotSaveToDefault"


\* The three refusals of shelveFile
ShelveRefusals == {"FileNotInChanges", "ChangelistNotFound", "CannotSaveToDefault"}

\* C11: shelveFile called with a path that is not among the changed files
\* fails with the not-found error of the file, with an id that does not
\* resolve with the not-found error of the changelist, with the default
\* changelist as target with the invalid-operation error; a call that fails
\* so stores no snapshot, writes no file (mirror included), persists nothing
\* and fires no event.
C11_ShelveRefusalsAreClean ==
    [][(pc = Idle /\ last'.op = "shelveFile") =>
        LET np == normalizePath(last'.path)
            i == getChangelist(last'.cl)
            changed == np \in WorkPaths /\ changedFiles[np] # "none"
        IN  /\ ~changed => last'.err = "FileNotInChanges"
            /\ (changed /\ i = 0) => last'.err = "ChangelistNotFound"
            /\ (changed /\ i # 0 /\ state.changelists[i].isDefault) =>
                    last'.err = "CannotSaveToDefault"
            /\ last'.err \in ShelveRefusals =>
                /\ last'.step = "failed" /\ pc' = Idle
                /\ state' = state /\ fs' = fs /\ store' = store /\ fired' = fired]_vars

\* shelveFile refused to shelve a changed file into the default changelist,
\* with the mirror enabled
C11_Witness ==
    /\ last.op = "shelveFile" /\ last.step = "failed"
    /\ last.err = "CannotSaveToDefault"
    /\ config
    /\ changedFiles[normalizePath(last.path)] # "none"
    /\ state.changelists[getChangelist(last.cl)].shelvedFiles = <<>>


\* C12: deleteChangelist called on the default changelist fails with the
\* invalid-operation error and changes no file of the working tree, nothing of
\* the in-memory state (changelists, active flags) and nothing persisted.
C12_DeleteDefaultRefused ==
    [][(pc = Idle /\ last'.op = "deleteChangelist" /\ getChangelist(last'.cl) # 0
            /\ state.changelists[getChangelist(last'.cl)].isDefault) =>
        /\ last'.step = "failed" /\ last'.err = "CannotDeleteDefault"
        /\ pc' = Idle
        /\ fs' = fs /\ state' = state /\ store' = store]_vars

\* deleteChangelist refused the default changelist while another changelist
\* was the active one
C12_Witness ==
    /\ last.op = "deleteChangelist" /\ last.err = "CannotDeleteDefault"
    /\ state.changelists[getChangelist(last.cl)].isDefault
    /\ ~state.changelists[getChangelist(last.cl)].isActive
    /\ store[StateKey] = state

\* The file a snapshot is restored to holds what the snapshot says
RestoredAs(sf, files) ==
    /\ sf.status = "deleted" => files[unshelveTarget(sf)] = NoFile
    /\ (sf.status # "deleted" /\ sf.originalContent # Undefined) =>
            files[unshelveTarget(sf)] = utf8Encode(sf.originalContent)

ActiveIds(st) ==
    {st.changelists[i].id : i \in {k \in DOMAIN st.changelists : st.changelists[k].isActive}}

\* The ids of the changelists of st that have isDefault = true
DefaultIds(st) ==
    {st.changelists[i].id : i \in {k \in DOMAIN st.changelists : st.changelists[k].isDefault}}

\* C14: when deleteChangelist removes the changelist that was active, the
\* default changelist is afterwards the one active changelist and
\* activeChangelistId is its id; when it removes a changelist that was not
\* active, the active changelist and activeChangelistId stay as they were.
C14_ActiveMovesToDefault ==
    [][(last'.op = "deleteChangelist" /\ last'.step = "saved") =>
        IF state.changelists[getChangelist(last'.cl)].isActive
        THEN /\ ActiveIds(state') = DefaultIds(state')
             /\ ActiveIds(state') = {state'.activeChangelistId}
        ELSE /\ ActiveIds(state') = ActiveIds(state)
             /\ state'.activeChangelistId = state.activeChangelistId]_vars

\* The first method of a session deleted the changelist that the stored
\* record had as the active one; the default changelist is active
C14_Witness ==
    /\ pc.op = "deleteChangelist" /\ pc.step = "saved" /\ pc.i = 1
    /\ ops = MaxOps - 1
    /\ pc.cl = ShelvedRecord.activeChangelistId
    /\ store[StateKey].activeChangelistId # ShelvedRecord.activeChangelistId
    /\ ActiveIds(state) = DefaultIds(state)
    /\ state.activeChangelistId \in DefaultIds(state)


\* C15: commitChangelist on a changelist that is not the default one and holds
\* snapshots, called while files outside the changelist have pending changes,
\* completes: the stash it is to pop exists, and when it returns the
\* changelist holds no snapshot and each such file is as it was when the
\* method was called, its change neither staged nor committed.
C15_CommitKeepsUnrelated ==
    [][/\ (pc.op = "commitChangelist" /\ pc.step = "pop") => stash # <<>>
       /\ (pc.op = "commitChangelist" /\ pc.step = "saved" /\ pc' = Idle) =>
            /\ state'.changelists[getChangelist(pc.cl)].shelvedFiles = <<>>
            /\ \A p \in WorkPaths \ pc.before.paths :
                pc.before.tree[p] # pc.before.head[p] =>
                    /\ fs'[Loc(p)] = pc.before.tree[p]
                    /\ head'[p] = pc.before.head[p]
                    /\ index'[p] = pc.before.head[p]]_vars


\* C16: when commitChangelist fails, the error it surfaces is
\* UnrecoverableCommitState exactly when the call leaves behind a stash entry
\* that it pushed and did not pop; a failure that leaves no stash entry
\* behind surfaces another error.
C16_UnpoppedStashIsDistinguished ==
    [][(pc.op = "commitChangelist" /\ last'.op = "commitChangelist"
            /\ last'.step = "failed") =>
        (last'.err = "UnrecoverableCommitState"
            <=> Len(stash') > Len(pc.before.stash))]_vars


\* The loaded state `new` is the stored record `old` with nothing changed
\* but the version and the repoPath fields that were missing
SameButRepoPath(new, old) ==
    /\ new.activeChangelistId = old.activeChangelistId
    /\ DOMAIN new.changelists = DOMAIN old.changelists
    /\ \A i \in DOMAIN old.changelists :
        LET n == new.changelists[i]
            o == old.changelists[i] IN
        /\ n.id = o.id /\ n.label = o.label
        /\ n.isDefault = o.isDefault /\ n.isActive = o.isActive
        /\ n.repoPath = IF o.repoPath = NoPath THEN RepoPath ELSE o.repoPath
        /\ DOMAIN n.shelvedFiles = DOMAIN o.shelvedFiles
        /\ \A j \in DOMAIN o.shelvedFiles :
            LET nf == n.shelvedFiles[j]
                of == o.shelvedFiles[j] IN
            /\ nf.relativePath = of.relativePath /\ nf.status = of.status
            /\ nf.originalContent = of.originalContent
            /\ nf.headContent = of.headContent
            /\ nf.patch = of.patch /\ nf.shelvedAt = of.shelvedAt
            /\ nf.repoPath = IF of.repoPath = NoPath THEN RepoPath ELSE of.repoPath

\* C17: loading a record of this repository stored at an older schema
\* version yields, and saves again, a state with the labels, the snapshots
\* and the active changelist id of that record, only missing repoPath fields
\* filled in, whatever the store holds under the legacy key.
C17_UpgradeKeepsRecord ==
    [][(last'.op = "loadState" /\ store[StateKey] # NoRecord
            /\ store[StateKey].version < STATE_VERSION) =>
        /\ SameButRepoPath(state', store[StateKey])
        /\ store'[StateKey] = state']_vars

\* C18: loading is idempotent: a record of the current version is returned
\* as it is and not written again, and a load that follows another load
\* yields the state and the store the first one left.
C18_LoadIsIdempotent ==
    [][last'.op = "loadState" =>
        /\ (store[StateKey] # NoRecord /\ store[StateKey].version = STATE_VERSION) =>
            (state' = store[StateKey] /\ store' = store /\ last'.step = "returned")
        /\ last.op = "loadState" => (state' = state /\ store' = store)]_vars

\* A second load has followed one that migrated the legacy record
C18_Witness ==
    /\ last.op = "loadState" /\ last.again /\ last.step = "returned"
    /\ store[LEGACY_STATE_KEY] = LegacyRecord
    /\ SameButRepoPath(state, LegacyRecord)


\* The (changelist, snapshot) positions of the state whose snapshot is of
\* the normalized path np
VersionPairs(np) ==
    UNION {{<<i, j>> : j \in {k \in DOMAIN state.changelists[i].shelvedFiles :
                normalizePath(state.changelists[i].shelvedFiles[k].relativePath) = np}} :
           i \in DOMAIN state.changelists}

\* C19: getFileVersions(path) returns exactly the (changelist, snapshot)
\* pairs, over all changelists, whose normalized snapshot path is the
\* normalized argument, newest capture first, and changes no state.
C19_VersionsExactAndOrdered ==
    [][last'.op = "getFileVersions" =>
        LET versions == last'.versions
            pairs == VersionPairs(normalizePath(last'.path)) IN
        /\ Len(versions) = Cardinality(pairs)
        /\ \A ij \in pairs : \E k \in DOMAIN versions :
            /\ versions[k].changelist = state.changelists[ij[1]]
            /\ versions[k].shelvedFile = state.changelists[ij[1]].shelvedFiles[ij[2]]
        /\ \A k, m \in DOMAIN versions :
            k < m => versions[k].shelvedFile.shelvedAt >= versions[m].shelvedFile.shelvedAt
        /\ UNCHANGED <<state, changedFiles, store, fs, head, index, stash, fired>>]_vars

\* A query for d\f found two snapshots and returned the one of the later
\* changelist first, since it is the newer
C19_Witness ==
    /\ last.op = "getFileVersions" /\ last.path = PDBF
    /\ Len(last.versions) = 2
    /\ last.versions[1].changelist.id > last.versions[2].changelist.id
    /\ last.versions[1].shelvedFile.shelvedAt > last.versions[2].shelvedFile.shelvedAt
    /\ last.versions[1].shelvedFile.relativePath = PDF


\* C20: when one workspace folder is removed, the repositories dropped from
\* the manager are exactly those inside that folder; every other registered
\* repository stays registered, and after the engines were reconciled it has
\* the engine it had, with the state in memory and the stored record it had.
C20_RemovalKeepsOtherRoots ==
    [][(last'.op = "onDidChangeWorkspaceFolders"
            /\ workspaceFolders' \subseteq workspaceFolders) =>
        LET removed == workspaceFolders \ workspaceFolders'
            inside == {r \in DOMAIN repositories : \E f \in removed : isInside(r, f)} IN
        /\ DOMAIN repositories \ DOMAIN repositories' = inside
        /\ \A r \in DOMAIN repositories \ inside :
            /\ r \in DOMAIN repositories'
            /\ r \in DOMAIN services =>
                (r \in DOMAIN services' /\ services'[r] = services[r])
            /\ store'[getRepoStateKey(r)] = store[getRepoStateKey(r)]]_vars


\* C21: after activation and after every reconciliation there is one engine
\* for each repository the manager discovered and none for any other path,
\* and an engine that existed for a repository still present is the one kept.
C21_OneEnginePerRepository ==
    /\ DOMAIN services = DOMAIN repositories
    /\ [][/\ DOMAIN services' = DOMAIN repositories'
          /\ \A r \in DOMAIN services \cap DOMAIN repositories' :
                services'[r].instance = services[r].instance]_vars

\* A scan registered a repository that had no engine while another kept the
\* engine of the activation
C21_Witness ==
    /\ last.op = "gitWatcher"
    /\ \E r, q \in DOMAIN services :
        /\ services[r].instance = 1
        /\ Len(services[r].state.changelists) > 1
        /\ services[q].instance > 1


\* The directory has a skipped name, or lies under one, below the folder
UnderSkipped(d, folder) ==
    \E k \in (Len(folder) + 1)..Len(d) : d[k] \in SkippedNames

\* The directories the directory lies in, from the folder down
Ancestors(d, folder) ==
    {a \in Dirs : a # d /\ isInside(d, a) /\ isInside(a, folder)}

\* The repositories discovery is to return for a workspace folder, and the
\* nearest of them that encloses a directory (NoPath if none does): a marked
\* directory at or below the folder, not under a skipped name and at most
\* MaxDepth levels below the nearest discovered repository that encloses it
RECURSIVE Discoverable(_, _)
Enclosing(d, folder) ==
    LET found == {a \in Ancestors(d, folder) : Discoverable(a, folder)} IN
    IF found = {} THEN NoPath
    ELSE CHOOSE a \in found : \A b \in found : Len(b) <= Len(a)

Discoverable(d, folder) ==
    /\ d \in GitDirs
    /\ isInside(d, folder)
    /\ ~UnderSkipped(d, folder)
    /\ Enclosing(d, folder) # NoPath =>
            depthBelow(d, Enclosing(d, folder)) <= MaxDepth

\* C22: for each workspace folder, whether or not the folder itself is a
\* repository, discovery returns every marked directory at or below it that
\* is not under a skipped name nor deeper than the depth bound below its
\* nearest enclosing discovered repository, and each nested repository
\* records that enclosing repository as its parent.
C22_DiscoveryFindsMarkedDirs ==
    last.op \in {"init", "gitWatcher"} =>
        repositories = RepoMap(UNION {
            {GitRepository(d, Enclosing(d, folder)) :
                d \in {g \in GitDirs : Discoverable(g, folder)}} :
            folder \in workspaceFolders})


\* C23: whatever the engine of this repository does, the restore of imported
\* snapshots included, the working file of the other repository, the records
\* stored under other keys and the engines of the session stay as they were.
C23_EnginesAreIsolated ==
    [][/\ fs'[OtherLoc] = fs[OtherLoc]
       /\ \A k \in DOMAIN store \ {StateKey} : store'[k] = store[k]
       /\ services' = services]_vars


\* C24: the notification of a mutating operation is emitted when the state in
\* memory is the stored one and the operation changes neither any more, and
\* a step that fails emits none.
C24_NotifyAfterMutationAndSave ==
    [][/\ fired' # fired =>
            /\ store[StateKey] = state
            /\ state' = state
            /\ store' = store
       /\ last'.step = "failed" => fired' = fired]_vars


\* C25: applyAndStage has restored the working file when it asks git to
\* stage it; when staging fails the caller gets the error, the file keeps the
\* content of the snapshot, the index is as it was and the snapshot is still
\* in the changelist.
C25_StageFailureKeepsRestore ==
    [][(pc.op = "applyAndStage" /\ pc.step = "add") =>
        /\ SnapshotsOf(pc.cl, pc.path) # {}
        /\ RestoredAs(SnapshotOf(pc.cl, pc.path), fs)
        /\ last'.step = "failed" =>
            /\ last'.op = "applyAndStage" /\ last'.err = "GitFailure"
            /\ fs' = fs /\ index' = index /\ head' = head
            /\ state' = state /\ store' = store /\ fired' = fired]_vars

\* Staging failed after the restore gave the file a content the index lacks
C25_Witness ==
    /\ last.op = "applyAndStage" /\ last.step = "failed" /\ last.err = "GitFailure"
    /\ SnapshotsOf(last.cl, last.path) # {}
    /\ fs[Loc(PF)] = utf8Encode(SnapshotOf(last.cl, last.path).originalContent)
    /\ index[PF] # fs[Loc(PF)]


\* C26: when unshelveAll or applyAllAndStage fails while it restores a
\* snapshot, the files of the snapshots restored before keep the restored
\* content, every snapshot stays in the changelist, the error of that restore
\* is what the caller gets, and nothing is staged.
C26_BatchFailureKeepsRestored ==
    [][(last'.op \in {"unshelveAll", "applyAllAndStage"} /\ last'.step = "failed"
            /\ last'.err = "IOFailure") =>
        LET files == state.changelists[getChangelist(last'.cl)].shelvedFiles
            done == IF pc.op = last'.op THEN pc.i ELSE 0 IN
        /\ files[done + 1].relativePath = last'.path
        /\ \A j \in 1..done : RestoredAs(files[j], fs')
        /\ fs' = fs
        /\ state' = state /\ store' = store
        /\ index' = index /\ head' = head
        /\ pc' = Idle]_vars

\* applyAllAndStage failed at the second snapshot of a changelist
C26_Witness ==
    /\ last.op = "applyAllAndStage" /\ last.step = "failed" /\ last.err = "IOFailure"
    /\ LET files == state.changelists[getChangelist(last.cl)].shelvedFiles IN
        /\ Len(files) = 2
        /\ files[2].relativePath = last.path
        /\ files[1].relativePath # last.path
        /\ RestoredAs(files[1], fs)
        /\ index = head


\* C27: commitChangelist called on a changelist that is not the default one and
\* holds no snapshot, and applyAllAndStage called on a changelist that holds no
\* snapshot, fail at once with the error for an empty changelist: no stash is
\* pushed, no file written, nothing staged or committed, and the state in
\* memory and the stored record are unchanged.
C27_EmptyChangelistRefused ==
    [][\A op \in {"commitChangelist", "applyAllAndStage"} :
        (/\ pc = Idle /\ ops' = ops - 1 /\ last'.op = op
         /\ getChangelist(last'.cl) # 0
         /\ Len(state.changelists[getChangelist(last'.cl)].shelvedFiles) = 0) =>
            /\ last'.step = "failed"
            /\ last'.err = IF op = "commitChangelist" THEN "NoShelvedFiles"
                           ELSE "NoFilesInChangelist"
            /\ pc' = Idle
            /\ stash' = stash /\ fs' = fs /\ index' = index /\ head' = head
            /\ state' = state /\ store' = store /\ fired' = fired
            /\ changedFiles' = changedFiles]_vars

\* commitChangelist has refused an empty changelist while files were changed
C27_Witness ==
    /\ last.op = "commitChangelist" /\ last.step = "failed"
    /\ last.err = "NoShelvedFiles"
    /\ getChangelist(last.cl) # 0
    /\ ~state.changelists[getChangelist(last.cl)].isDefault
    /\ state.changelists[getChangelist(last.cl)].shelvedFiles = <<>>
    /\ changedPaths # <<>>
    /\ stash = <<>>


\* C28: unshelveFile, applyAndStage and deleteShelvedFile called with a
\* changelist id that does not resolve, or with a path of which the changelist
\* holds no snapshot, fail with the not-found error, and the call writes no
\* file, persists nothing and emits no notification.
C28_MissingSnapshotRefused ==
    [][\A op \in {"unshelveFile", "applyAndStage", "deleteShelvedFile"} :
        (/\ pc = Idle /\ ops' = ops - 1 /\ last'.op = op
         /\ SnapshotsOf(last'.cl, normalizePath(last'.path)) = {}) =>
            /\ last'.step = "failed"
            /\ last'.err = IF getChangelist(last'.cl) = 0 THEN "ChangelistNotFound"
                           ELSE "FileNotInChangelist"
            /\ pc' = Idle
            /\ fs' = fs /\ index' = index
            /\ state' = state /\ store' = store /\ fired' = fired]_vars


\* C29: in unshelveAll and applyAllAndStage, a snapshot that holds only a
\* legacy patch which no longer applies does not end the batch: the method
\* goes on with the snapshots that follow, and they are restored.
C29_StalePatchIsSoft ==
    [][\A op \in {"unshelveAll", "applyAllAndStage"} :
        (/\ last'.op = op /\ getChangelist(last'.cl) # 0
         /\ \/ pc = Idle /\ ops' = ops - 1
            \/ pc.op = op /\ pc.step = "loop") =>
            LET files == state.changelists[getChangelist(last'.cl)].shelvedFiles
                k == pc.i + 1 IN
            (/\ k \in DOMAIN files
             /\ isLegacyPatch(files[k])
             /\ ~patchApplies(fs, files[k])) =>
                /\ last'.step # "failed"
                /\ pc'.op = op]_vars

\* An item with a label and a snapshot array
HasLabelAndArray(item) == item.label # <<>> /\ item.isArray

\* C30: a completed importChangelists has appended one changelist per item
\* that has a label and a snapshot array, in order, with an id no earlier
\* changelist has, not default, not active, and the item's label and snapshots
\* as given; it returns their number; the changelists that existed and the
\* active id are unchanged, and the result is stored.  Data whose changelists
\* field is no list is rejected with state and store unchanged.  Hence
\* importing what exportChangelists returned re-creates the label and the
\* snapshots of every changelist that is not the default one and not empty.
C30_ImportCreatesPerItem ==
    [][/\ (last'.op = "importChangelists" /\ last'.step = "done") =>
            LET old == pc.before.changelists
                made == SelectSeq(pc.before.items, HasLabelAndArray)
                new == state'.changelists IN
            /\ Len(new) = Len(old) + Len(made)
            /\ \A i \in DOMAIN old : new[i] = old[i]
            /\ \A k \in DOMAIN made :
                LET cl == new[Len(old) + k] IN
                /\ cl.label = made[k].label
                /\ cl.shelvedFiles = made[k].shelvedFiles
                /\ ~cl.isDefault /\ ~cl.isActive
                /\ \A i \in 1..(Len(old) + k - 1) : new[i].id # cl.id
            /\ state'.activeChangelistId = pc.before.active
            /\ last'.cl = Len(made)
            /\ store'[StateKey] = state'
            /\ pc.before.items = exportChangelists([changelists |-> old]) =>
                \A i \in DOMAIN old :
                    (~old[i].isDefault /\ old[i].shelvedFiles # <<>>) =>
                        \E j \in (Len(old) + 1)..Len(new) :
                            /\ new[j].label = old[i].label
                            /\ new[j].shelvedFiles = old[i].shelvedFiles
       /\ (last'.op = "importChangelists" /\ last'.step = "failed") =>
            /\ last'.err = "InvalidImportData"
            /\ state' = state /\ store' = store /\ fired' = fired]_vars

\* An import has created one changelist, and it is the copy of a changelist
\* that was there before: the export of the state was imported
C30_Witness ==
    /\ last.op = "importChangelists" /\ last.step = "done" /\ last.cl = 1
    /\ Len(state.changelists) = 3
    /\ state.changelists[2].shelvedFiles # <<>>
    /\ state.changelists[3].label = state.changelists[2].label
    /\ state.changelists[3].shelvedFiles = state.changelists[2].shelvedFiles
    /\ state.changelists[3].label = LabelUp

\* The snapshots the state holds that have content, as <<changelist, snapshot>>
StoredWithContent ==
    UNION {{<<i, j>> : j \in {k \in DOMAIN state.changelists[i].shelvedFiles :
                    state.changelists[i].shelvedFiles[k].originalContent # Undefined}} :
           i \in DOMAIN state.changelists}

MirrorFileOf(ij) ==
    getSnapshotFilePath(state.changelists[ij[1]].shelvedFiles[ij[2]], state.changelists[ij[1]])

\* C31: with the mirror enabled, between operations every stored snapshot that
\* has content has a mirror file of its own, which holds the snapshot's
\* content, and the mirror directory holds no other file.
C31_MirrorMatchesSnapshots ==
    (config /\ pc = Idle) =>
        /\ \A a \in StoredWithContent, b \in StoredWithContent :
                a # b => MirrorFileOf(a) # MirrorFileOf(b)
        /\ \A a \in StoredWithContent :
                fs[MirrorFileOf(a)] =
                    utf8Encode(state.changelists[a[1]].shelvedFiles[a[2]].originalContent)
        /\ \A l \in FsLocs :
                (InMirrorDir(l) /\ fs[l] # NoFile) =>
                    \E a \in StoredWithContent : MirrorFileOf(a) = l

\* The snapshots of the changelist commitChangelist is committing
CommitFiles == state.changelists[getChangelist(pc.cl)].shelvedFiles

\* C32: the steps of commitChangelist on a changelist that is not the default
\* one and holds snapshots come in this order: stash push (only when the cache
\* holds changed files), restore of every snapshot, staging of exactly the
\* paths of the changelist, commit, clearing of the snapshots, stash pop
\* (exactly when the push step was taken), persistence, notification; a step
\* that fails ends the method and none of the later effects happens.
C32_CommitStepsInOrder ==
    [][(pc.op = "commitChangelist") =>
        \* the push comes first: nothing was touched before it
        /\ pc.step = "stash" =>
            /\ pc.stashed /\ changedPaths # <<>>
            /\ [p \in WorkPaths |-> fs[Loc(p)]] = pc.before.tree
            /\ index = pc.before.index /\ stash = pc.before.stash
        /\ stash' # stash => pc.step \in {"stash", "pop"}
        /\ pc.stashed <=> changedPaths # <<>>
        \* staging comes after every restore and before the commit
        /\ pc.step = "add" =>
            /\ \A j \in DOMAIN CommitFiles : RestoredAs(CommitFiles[j], fs)
            /\ head = pc.before.head
            /\ last'.step # "failed" =>
                \A p \in WorkPaths :
                    index'[p] = IF p \in pc.before.paths THEN fs[Loc(p)] ELSE index[p]
        /\ index' # index => pc.step \in {"stash", "add", "pop"}
        /\ head' # head => pc.step = "commit" /\ head' = index
        \* the snapshots are cleared with the commit, before pop and save
        /\ state' # state =>
            /\ pc.step = "commit" /\ last'.step # "failed" /\ head' = index
            /\ state' = [state EXCEPT
                    !.changelists[getChangelist(pc.cl)].shelvedFiles = <<>>]
            /\ stash' = stash
        /\ pc.step \in {"stash", "loop", "add", "commit"} =>
            /\ CommitFiles # <<>> /\ store[StateKey] = state
        /\ pc.step = "pop" =>
            /\ pc.stashed /\ CommitFiles = <<>> /\ store[StateKey] # state
        /\ pc'.step = "pop" => pc.step = "commit"
        \* persistence comes after the pop, notification last
        /\ store' # store =>
            /\ pc.step = IF pc.stashed THEN "pop" ELSE "commit"
            /\ store'[StateKey] = state' /\ last'.step = "saved"
            /\ state'.changelists[getChangelist(pc.cl)].shelvedFiles = <<>>
        /\ fired' # fired =>
            /\ pc.step = "saved" /\ store[StateKey] = state /\ CommitFiles = <<>>
            /\ pc' = Idle
            /\ UNCHANGED <<state, store, fs, head, index, stash>>
        \* a failing step is the last one
        /\ last'.step = "failed" =>
            /\ pc' = Idle
            /\ UNCHANGED <<state, store, head, fired>>
            /\ pc.step # "stash" => UNCHANGED <<fs, index, stash>>]_vars

\* commitChangelist has pushed a stash, restored, staged, committed, cleared,
\* popped and saved, and is about to notify
C32_Witness ==
    /\ pc.op = "commitChangelist" /\ pc.step = "saved" /\ pc.stashed
    /\ head # pc.before.head
    /\ stash = pc.before.stash
    /\ store[StateKey] = state
    /\ \E p \in WorkPaths \ pc.before.paths : fs[Loc(p)] # head[p]

\* C33: when a restore fails during deleteChangelist, the method fails and the
\* changelist, its snapshots and the active flags are as before, in memory and
\* in the stored record; the changelist is removed only when each of its
\* snapshots has been restored, and a deleteChangelist that returns without
\* an error has removed it.
C33_DeleteKeepsOnRestoreFailure ==
    [][(last'.op = "deleteChangelist" /\ last' # last) =>
        /\ (last'.step = "failed" /\ last'.err = "IOFailure") =>
            /\ state' = state /\ store' = store /\ fired' = fired
            /\ getChangelist(last'.cl) # 0
            /\ \E k \in DOMAIN store'[StateKey].changelists :
                    store'[StateKey].changelists[k].id = last'.cl
            /\ ActiveIds(state') = ActiveIds(state)
        /\ state' # state =>
            LET files == state.changelists[getChangelist(last'.cl)].shelvedFiles IN
            /\ pc.i = Len(files)
            /\ \A j \in DOMAIN files : RestoredAs(files[j], fs)
            /\ fs' = fs
        /\ (pc' = Idle /\ last'.step # "failed") =>
            \A k \in DOMAIN state'.changelists : state'.changelists[k].id # last'.cl]_vars

\* deleteChangelist failed on a restore; the changelist it was to delete is
\* the active one and still holds its snapshot
C33_Witness ==
    /\ last.op = "deleteChangelist" /\ last.step = "failed" /\ last.err = "IOFailure"
    /\ getChangelist(last.cl) # 0
    /\ state.changelists[getChangelist(last.cl)].isActive
    /\ state.changelists[getChangelist(last.cl)].shelvedFiles # <<>>
    /\ store[StateKey] = state
    /\ state.activeChangelistId = last.cl

\* C34: activeChangelistId is the id of a changelist of the state, and that
\* changelist is the one that has isActive = true.
C34_ActiveIdNamesActive ==
    /\ \E i \in DOMAIN state.changelists :
        /\ state.changelists[i].id = state.activeChangelistId
        /\ state.changelists[i].isActive
    /\ ActiveIds(state) = {state.activeChangelistId}
    /\ getChangelist(state.activeChangelistId) # 0

\* From the freshly synthesized state a changelist was created and made the
\* active one
C34_Witness ==
    /\ last.op = "setActiveChangelist" /\ last.step = "done"
    /\ nextId = 3 /\ Len(state.changelists) = 2
    /\ state.activeChangelistId = 2
    /\ state.changelists[2].isActive /\ ~state.changelists[1].isActive

\* The state `new` is the legacy record `old` with every changelist and
\* snapshot stamped with the path of this repository, at the current version
MigratedFrom(new, old) ==
    /\ new.version = STATE_VERSION
    /\ new.activeChangelistId = old.activeChangelistId
    /\ DOMAIN new.changelists = DOMAIN old.changelists
    /\ \A i \in DOMAIN old.changelists :
        LET n == new.changelists[i]
            o == old.changelists[i] IN
        /\ n.id = o.id /\ n.label = o.label
        /\ n.isDefault = o.isDefault /\ n.isActive = o.isActive
        /\ n.repoPath = RepoPath
        /\ DOMAIN n.shelvedFiles = DOMAIN o.shelvedFiles
        /\ \A j \in DOMAIN o.shelvedFiles :
            /\ n.shelvedFiles[j] = [o.shelvedFiles[j] EXCEPT !.repoPath = RepoPath]

\* C35: a load migrates the legacy record exactly when the repository is the
\* first workspace root and the store holds no record of the current version
\* under the repository's key; the state is then the legacy record with every
\* changelist and snapshot stamped with the repository's path, at the current
\* version, saved under the repository's key, the legacy record left in place.
\* Any other load yields what the repository's own record alone determines.
C35_LegacyMigratedByRootOnly ==
    [][last'.op = "loadState" =>
        LET legacy == store[LEGACY_STATE_KEY]
            own == store[StateKey]
            current == own # NoRecord /\ own.version = STATE_VERSION
            due == legacy # NoRecord /\ last'.path = RepoPath /\ ~current IN
        /\ due =>
            /\ MigratedFrom(state', legacy)
            /\ store'[StateKey] = state'
            /\ store'[LEGACY_STATE_KEY] = legacy
        /\ ~due =>
            /\ current => state' = own /\ store' = store
            /\ (own # NoRecord /\ own.version < STATE_VERSION) =>
                    SameButRepoPath(state', own)
            /\ (own = NoRecord \/ own.version > STATE_VERSION) =>
                    state' = defaultState(nextId)
            /\ store'[LEGACY_STATE_KEY] = legacy]_vars

\* The engine of the first workspace root has loaded the migrated legacy
\* record and saved it under its key
C35_Witness ==
    /\ last.op = "loadState" /\ last.step = "saved" /\ ~last.again
    /\ last.path = RepoPath
    /\ store[LEGACY_STATE_KEY] = LegacyRecord
    /\ MigratedFrom(state, LegacyRecord)
    /\ state.changelists[2].shelvedFiles[1].repoPath = RepoPath
    /\ store[StateKey] = state

\* C36: whenever no method is in progress, the record stored under the key of
\* the repository equals the state in memory.
C36_StoreEqualsStateAtRest ==
    pc = Idle => store[StateKey] = state

\* The k-th call holds, in a changelist of the state, the snapshot it captured
Holds(st, call) ==
    \E i \in DOMAIN st.changelists :
        /\ st.changelists[i].id = call.cl
        /\ \E j \in DOMAIN st.changelists[i].shelvedFiles :
            /\ st.changelists[i].shelvedFiles[j].relativePath = call.path
            /\ st.changelists[i].shelvedFiles[j].originalContent = call.content

\* C37: a shelveFile call that returns without error has stored its snapshot
\* in a changelist that is part of the state, also when deleteChangelist ran
\* on the target while the call awaited the content of HEAD.
C37_ShelveNeverDropped ==
    [][\A k \in DOMAIN calls' :
        (calls'[k].phase = "returned"
            /\ (k \notin DOMAIN calls \/ calls[k].phase # "returned")) =>
                Holds(state', calls'[k])]_vars

\* C38: when commitChangelist clears the snapshots of the changelist, each
\* snapshot it clears is part of the commit: HEAD holds the snapshot's content
\* at its path (no file for a snapshot of status 'deleted'), also for a
\* snapshot that a shelveFile call stored while the commit was suspended.
C38_CommitClearsOnlyCommitted ==
    [][(pc.op = "commitChangelist" /\ pc.step = "commit"
            /\ pc'.op = "commitChangelist" /\ pc'.step \in {"pop", "saved"}) =>
        \A j \in DOMAIN CommitFiles :
            LET sf == CommitFiles[j] IN
            \/ sf.status # "deleted" /\ sf.originalContent = Undefined
            \/ head'[normalizePath(sf.relativePath)] =
                    IF sf.status = "deleted" THEN NoFile
                    ELSE utf8Encode(sf.originalContent)]_vars

\* The snapshots that the changelist of the k-th call holds of its path
SnapshotsOfCall(k) ==
    LET i == getChangelist(calls[k].cl) IN
    IF i = 0 THEN <<>>
    ELSE SelectSeq(state.changelists[i].shelvedFiles,
                   LAMBDA sf : normalizePath(sf.relativePath) = calls[k].path)

\* C39: when two shelveFile calls for the same path and changelist have both
\* returned and nothing else touched the changelist, it holds exactly one
\* snapshot of the path, with the content the call issued later captured.
C39_LaterShelveCallWins ==
    (/\ Len(calls) = 2 /\ ops = MaxOverlapOps
     /\ calls[1].phase = "returned" /\ calls[2].phase = "returned"
     /\ calls[1].cl = calls[2].cl /\ calls[1].path = calls[2].path) =>
        /\ Len(SnapshotsOfCall(2)) = 1
        /\ SnapshotsOfCall(2)[1].originalContent = calls[2].content

\* The record `rec` is a fresh default state or the migrated legacy record
FreshOrLegacy(rec) ==
    \/ rec = defaultState(nextId)
    \/ store[LEGACY_STATE_KEY] # NoRecord /\ MigratedFrom(rec, store[LEGACY_STATE_KEY])

\* C40: a load that finds, under the key of the repository, a record of a
\* schema version newer than the current one leaves that record in the store
\* and takes neither a fresh default state nor the migrated legacy record as
\* the state in memory.
C40_NewerRecordSurvivesLoad ==
    [][(last'.op = "loadState" /\ store[StateKey] # NoRecord
            /\ store[StateKey].version > STATE_VERSION) =>
        /\ store'[StateKey] = store[StateKey]
        /\ ~FreshOrLegacy(state')]_vars

====
